---------------------------- MODULE Spec2Model ----------------------------
(***************************************************************************)
(* Model of the emissions calculation engine of wpi-greenboard             *)
(* (src/src/greenboard/emissions/emissions_calculator.py): geocoding with  *)
(* a per-instance cache, distance estimation with policy defaults,         *)
(* carrier-scoped transport-mode classification, weight resolution and     *)
(* the segmented emissions formula.                                        *)
(*                                                                         *)
(* Representation of Python values:                                        *)
(*  - Optional[X] is a sequence: <<>> for None, <<x>> for a value.  The    *)
(*    dimensions tuple is <<>> or <<L, W, H>>; a coordinate pair is <<>>   *)
(*    for (None, None) or <<lat, lon>>.                                    *)
(*  - The text fields of an Address are strings; the code only tests them  *)
(*    for truthiness, so None and '' are both "".                          *)
(*  - Strings that the code changes the case of (carrier, service code,    *)
(*    service description) are sequences of one-character strings, so     *)
(*    that upper() and lower() are computed character by character.        *)
(*  - Floats are exact scaled integers.  Weights are in units of           *)
(*    1/WeightUnitsPerKg kg (0.2 kg), in which the dimensional weight of   *)
(*    the model's dimensions is exact; emission factors are in thousandths *)
(*    of kg CO2e per tonne-km; distances are whole km; emissions are the   *)
(*    product weight * distance * factor, that is (w/1000) * d * f in      *)
(*    units of 1/(WeightUnitsPerKg * 10^6) kg CO2e.  Rounding error of     *)
(*    IEEE arithmetic is not modelled.                                     *)
(***************************************************************************)
EXTENDS Integers, Sequences, FiniteSets, TLC

VARIABLES
    cache,            \* DistanceCalculator.cache: query string -> coordinates
    adapters,         \* CarrierFactory._adapters: carrier name -> adapter class
    package_info,     \* argument of the last calculate_from_package_info call
    result,           \* its return value: <<>> (None) or <<EmissionResult>>
    raised,           \* the exception it raised, "" when it returned
    distance_call,    \* arguments, locals and return of the last calculate_distance call
    geocode_call,     \* argument and return of the last geocode_address call
    geocoder_calls,   \* number of geocoder.geocode requests made by the last call
    cache_lookups,    \* number of cache membership tests made by the last call
    geocoder,         \* the geocoding service: query string -> its answer, where fixed
    first_run,        \* outcome of the first of two runs on the same package
    classified,       \* arguments and return of the last classification call
    lookup_log,       \* log of a client: query string -> first outcomes of its lookups
    rows,             \* the rows of the CSV file of the process_csv call (df)
    futures,          \* the task of each row: pending, done (with its outcome) or collected
    results,          \* BatchEmissionsProcessor.results
    errors,           \* BatchEmissionsProcessor.errors
    batch_pc,         \* process_csv: "idle", "collecting", "aborting", "done" or "raised"
    runs,             \* number of process_csv calls made on the processor
    pipeline,         \* arguments and locals of the calculate_package_emissions call
    stage_log,        \* the stages that call has started, in order
    threads,          \* engine invocations running concurrently: thread -> its state
    report,           \* what a reporting route computed for the stored result, <<>> before
    pc                \* "idle", or "returned" while the caller holds the last call's outcome

vars == <<cache, adapters, package_info, result, raised, distance_call,
          geocode_call, geocoder_calls, cache_lookups, geocoder, first_run,
          classified, lookup_log, rows, futures, results, errors, batch_pc, runs,
          pipeline, stage_log, threads, report, pc>>

\* The state of a BatchEmissionsProcessor and its process_csv call.
batch_vars == <<rows, futures, results, errors, batch_pc, runs>>

\* The state of a calculate_package_emissions call.
pipeline_vars == <<pipeline, stage_log>>

-----------------------------------------------------------------------------
(* Bounds of the model.                                                    *)

\* Declared weights range over -1 .. MaxWeight kg.
MaxWeight == 2

\* A CSV file has at most MaxRows rows.
MaxRows == 2

\* At most MaxThreads engine invocations run concurrently.
MaxThreads == 2

\* process_csv calls made on one BatchEmissionsProcessor.
MaxRuns == 2

-----------------------------------------------------------------------------
(* Strings as character sequences: str.upper(), str.lower(), `in`.         *)

Letters ==
    { <<"a","A">>, <<"b","B">>, <<"c","C">>, <<"d","D">>, <<"e","E">>,
      <<"f","F">>, <<"g","G">>, <<"h","H">>, <<"i","I">>, <<"j","J">>,
      <<"k","K">>, <<"l","L">>, <<"m","M">>, <<"n","N">>, <<"o","O">>,
      <<"p","P">>, <<"q","Q">>, <<"r","R">>, <<"s","S">>, <<"t","T">>,
      <<"u","U">>, <<"v","V">>, <<"w","W">>, <<"x","X">>, <<"y","Y">>,
      <<"z","Z">> }

UpperChar(c) ==
    IF \E p \in Letters : p[1] = c
    THEN (CHOOSE p \in Letters : p[1] = c)[2]
    ELSE c

LowerChar(c) ==
    IF \E p \in Letters : p[2] = c
    THEN (CHOOSE p \in Letters : p[2] = c)[1]
    ELSE c

StrUpper(s) == [i \in 1..Len(s) |-> UpperChar(s[i])]

StrLower(s) == [i \in 1..Len(s) |-> LowerChar(s[i])]

\* str.strip(): s without its leading and trailing whitespace.
StrStrip(s) ==
    LET inked == { i \in 1..Len(s) : s[i] \notin { " ", "\t", "\n" } }
    IN  IF inked = {} THEN <<>>
        ELSE SubSeq(s, CHOOSE i \in inked : \A j \in inked : i <= j,
                       CHOOSE i \in inked : \A j \in inked : i >= j)

\* Python's `sub in s` on strings.
StrContains(s, sub) ==
    \E i \in 1..(Len(s) - Len(sub) + 1) : SubSeq(s, i, i + Len(sub) - 1) = sub

\* Python's `x or default` on an optional string (None and '' are both <<>>).
StrOr(s, default) == IF s # <<>> THEN s ELSE default

\* dict.get(key, default) on a table held as a set of <<key, value>> pairs.
DictGet(table, key, default) ==
    IF \E p \in table : p[1] = key
    THEN (CHOOSE p \in table : p[1] = key)[2]
    ELSE default

\* dict.keys() and dict.values() of such a table.
Keys(table) == { p[1] : p \in table }

Values(table) == { p[2] : p \in table }

-----------------------------------------------------------------------------
(* Constants and configuration.                                            *)

\* The table without an entry for ocean_container.
EMISSION_FACTORS_without_ocean ==
    [ truck_average        |-> 127,
      truck_urban_delivery |-> 307,
      truck_longhaul       |-> 62,
      rail                 |-> 22,
      air_shorthaul        |-> 820,
      air_longhaul         |-> 690,
      ocean_bulk           |-> 4,
      last_mile            |-> 200 ]

\* EMISSION_FACTORS['tonne_km'], in thousandths of kg CO2e per tonne-km.
EMISSION_FACTORS ==
    [ truck_average        |-> 127,
      truck_urban_delivery |-> 307,
      truck_longhaul       |-> 62,
      rail                 |-> 22,
      air_shorthaul        |-> 820,
      air_longhaul         |-> 690,
      ocean_container      |-> 10,
      ocean_bulk           |-> 4,
      last_mile            |-> 200 ]

\* DEFAULT_DISTANCES, in km.
DEFAULT_DISTANCES ==
    [ domestic_ground |-> 1200,
      domestic_air    |-> 1500,
      international   |-> 5000,
      last_mile       |-> 10 ]

\* The divisor of PackageInfo.get_dimensional_weight_kg.
DimensionalDivisor == 5000

\* Weight units per kg of the scaled representation of weights: weights are
\* held in units of 0.2 kg, exact for volumes that are multiples of 1000 cm3.
WeightUnitsPerKg == DimensionalDivisor \div 1000

\* The default of geocode_address's max_retries parameter.
max_retries == 3

\* Carrier service-code tables (SERVICE_TO_MODE of each adapter class).
UPS_SERVICE_TO_MODE ==
    {
       <<<<"0", "1">>, "air_shorthaul">>,
       <<<<"0", "2">>, "air_shorthaul">>,
       <<<<"0", "3">>, "truck_average">>,
       <<<<"0", "7">>, "air_longhaul">>,
       <<<<"0", "8">>, "air_longhaul">>,
       <<<<"1", "1">>, "truck_average">>,
       <<<<"1", "2">>, "truck_average">>,
       <<<<"1", "3">>, "air_shorthaul">>,
       <<<<"1", "4">>, "air_shorthaul">>,
       <<<<"5", "4">>, "air_longhaul">>,
       <<<<"5", "5", "4">>, "air_longhaul">>,
       <<<<"5", "9">>, "air_shorthaul">>,
       <<<<"6", "5">>, "ocean_container">>,
       <<<<"9", "3">>, "truck_average">>,
       <<<<"d", "e", "f", "a", "u", "l", "t">>, "truck_average">>
    }

USPS_SERVICE_TO_MODE ==
    {
       <<<<"P", "R", "I", "O", "R", "I", "T", "Y">>, "air_shorthaul">>,
       <<<<"P", "R", "I", "O", "R", "I", "T", "Y", "_", "E", "X", "P", "R", "E", "S", "S">>, "air_shorthaul">>,
       <<<<"F", "I", "R", "S", "T", "_", "C", "L", "A", "S", "S">>, "truck_average">>,
       <<<<"P", "A", "R", "C", "E", "L", "_", "S", "E", "L", "E", "C", "T">>, "truck_average">>,
       <<<<"M", "E", "D", "I", "A", "_", "M", "A", "I", "L">>, "truck_average">>,
       <<<<"P", "R", "I", "O", "R", "I", "T", "Y", "_", "M", "A", "I", "L", "_", "E", "X", "P", "R", "E", "S", "S", "_", "I", "N", "T", "E", "R", "N", "A", "T", "I", "O", "N", "A", "L">>, "air_longhaul">>,
       <<<<"P", "R", "I", "O", "R", "I", "T", "Y", "_", "M", "A", "I", "L", "_", "I", "N", "T", "E", "R", "N", "A", "T", "I", "O", "N", "A", "L">>, "air_longhaul">>,
       <<<<"d", "e", "f", "a", "u", "l", "t">>, "truck_average">>
    }

FedEx_SERVICE_TO_MODE ==
    {
       <<<<"F", "E", "D", "E", "X", "_", "G", "R", "O", "U", "N", "D">>, "truck_average">>,
       <<<<"G", "R", "O", "U", "N", "D", "_", "H", "O", "M", "E", "_", "D", "E", "L", "I", "V", "E", "R", "Y">>, "truck_average">>,
       <<<<"F", "E", "D", "E", "X", "_", "E", "X", "P", "R", "E", "S", "S", "_", "S", "A", "V", "E", "R">>, "air_shorthaul">>,
       <<<<"F", "E", "D", "E", "X", "_", "2", "_", "D", "A", "Y">>, "air_shorthaul">>,
       <<<<"F", "E", "D", "E", "X", "_", "2", "_", "D", "A", "Y", "_", "A", "M">>, "air_shorthaul">>,
       <<<<"S", "T", "A", "N", "D", "A", "R", "D", "_", "O", "V", "E", "R", "N", "I", "G", "H", "T">>, "air_shorthaul">>,
       <<<<"P", "R", "I", "O", "R", "I", "T", "Y", "_", "O", "V", "E", "R", "N", "I", "G", "H", "T">>, "air_shorthaul">>,
       <<<<"F", "I", "R", "S", "T", "_", "O", "V", "E", "R", "N", "I", "G", "H", "T">>, "air_shorthaul">>,
       <<<<"I", "N", "T", "E", "R", "N", "A", "T", "I", "O", "N", "A", "L", "_", "E", "C", "O", "N", "O", "M", "Y">>, "air_longhaul">>,
       <<<<"I", "N", "T", "E", "R", "N", "A", "T", "I", "O", "N", "A", "L", "_", "P", "R", "I", "O", "R", "I", "T", "Y">>, "air_longhaul">>,
       <<<<"I", "N", "T", "E", "R", "N", "A", "T", "I", "O", "N", "A", "L", "_", "F", "I", "R", "S", "T">>, "air_longhaul">>,
       <<<<"S", "M", "A", "R", "T", "_", "P", "O", "S", "T">>, "truck_average">>,
       <<<<"d", "e", "f", "a", "u", "l", "t">>, "truck_average">>
    }

\* The DHL table with its ground service delivered as last-mile.
DHL_SERVICE_TO_MODE_ground_last_mile ==
    {
       <<<<"E", "X", "P", "R", "E", "S", "S", "_", "W", "O", "R", "L", "D", "W", "I", "D", "E">>, "air_longhaul">>,
       <<<<"E", "X", "P", "R", "E", "S", "S", "_", "1", "2", ":", "0", "0">>, "air_longhaul">>,
       <<<<"E", "X", "P", "R", "E", "S", "S", "_", "9", ":", "0", "0">>, "air_longhaul">>,
       <<<<"E", "X", "P", "R", "E", "S", "S", "_", "E", "A", "S", "Y">>, "air_longhaul">>,
       <<<<"E", "C", "O", "N", "O", "M", "Y", "_", "S", "E", "L", "E", "C", "T">>, "air_longhaul">>,
       <<<<"G", "R", "O", "U", "N", "D">>, "last_mile">>,
       <<<<"d", "e", "f", "a", "u", "l", "t">>, "air_longhaul">>
    }

DHL_SERVICE_TO_MODE ==
    {
       <<<<"E", "X", "P", "R", "E", "S", "S", "_", "W", "O", "R", "L", "D", "W", "I", "D", "E">>, "air_longhaul">>,
       <<<<"E", "X", "P", "R", "E", "S", "S", "_", "1", "2", ":", "0", "0">>, "air_longhaul">>,
       <<<<"E", "X", "P", "R", "E", "S", "S", "_", "9", ":", "0", "0">>, "air_longhaul">>,
       <<<<"E", "X", "P", "R", "E", "S", "S", "_", "E", "A", "S", "Y">>, "air_longhaul">>,
       <<<<"E", "C", "O", "N", "O", "M", "Y", "_", "S", "E", "L", "E", "C", "T">>, "air_longhaul">>,
       <<<<"G", "R", "O", "U", "N", "D">>, "truck_average">>,
       <<<<"d", "e", "f", "a", "u", "l", "t">>, "air_longhaul">>
    }

-----------------------------------------------------------------------------
(* The configuration module (emissions_config.py): the standardized        *)
(* service types, their emission factors and the service-code tables of    *)
(* CarrierServiceMapper.                                                   *)

\* ServiceType: the values of the enum members (emissions_config.py).
ServiceType ==
    { "ground_standard", "ground_economy", "ground_expedited",
      "ground_2day", "air_next_day", "air_next_day_early",
      "air_next_day_saver", "air_2day", "air_2day_early",
      "air_3day", "air_intl_express", "air_intl_expedited",
      "air_intl_saver", "ocean_standard", "ocean_expedited",
      "rail_standard", "last_mile_standard", "last_mile_urban",
      "freight_ltl", "freight_ftl", "mail_innovations",
      "surepost" }

\* EMISSION_FACTORS of emissions_config.py, in thousandths of kg CO2e per
\* tonne-km, as a set of <<ServiceType value, factor>> pairs.
CONFIG_EMISSION_FACTORS ==
    { <<"ground_economy", 62>>,
      <<"ground_standard", 127>>,
      <<"ground_expedited", 180>>,
      <<"ground_2day", 220>>,
      <<"air_next_day_early", 900>>,
      <<"air_next_day", 820>>,
      <<"air_next_day_saver", 780>>,
      <<"air_2day", 750>>,
      <<"air_2day_early", 770>>,
      <<"air_3day", 720>>,
      <<"air_intl_express", 750>>,
      <<"air_intl_expedited", 690>>,
      <<"air_intl_saver", 650>>,
      <<"ocean_standard", 10>>,
      <<"ocean_expedited", 15>>,
      <<"rail_standard", 22>>,
      <<"last_mile_standard", 200>>,
      <<"last_mile_urban", 307>>,
      <<"freight_ltl", 150>>,
      <<"freight_ftl", 62>>,
      <<"mail_innovations", 180>>,
      <<"surepost", 180>> }

UPS_SERVICE_MAP ==
    {
       <<<<"0", "1">>, "air_next_day">>,
       <<<<"0", "2">>, "air_2day">>,
       <<<<"0", "3">>, "ground_standard">>,
       <<<<"0", "7">>, "air_intl_express">>,
       <<<<"0", "8">>, "air_intl_expedited">>,
       <<<<"1", "1">>, "ground_standard">>,
       <<<<"1", "2">>, "air_3day">>,
       <<<<"1", "3">>, "air_next_day_saver">>,
       <<<<"1", "4">>, "air_next_day_early">>,
       <<<<"5", "4">>, "air_intl_express">>,
       <<<<"5", "9">>, "air_2day_early">>,
       <<<<"6", "5">>, "air_intl_saver">>,
       <<<<"7", "0">>, "freight_ltl">>,
       <<<<"7", "4">>, "ground_economy">>,
       <<<<"8", "2">>, "ground_economy">>,
       <<<<"8", "3">>, "ground_economy">>,
       <<<<"9", "3">>, "surepost">>,
       <<<<"M", "2">>, "mail_innovations">>,
       <<<<"M", "3">>, "mail_innovations">>,
       <<<<"M", "4">>, "mail_innovations">>,
       <<<<"M", "5">>, "mail_innovations">>,
       <<<<"M", "6">>, "mail_innovations">>
    }

FEDEX_SERVICE_MAP ==
    {
       <<<<"F", "E", "D", "E", "X", "_", "G", "R", "O", "U", "N", "D">>, "ground_standard">>,
       <<<<"G", "R", "O", "U", "N", "D", "_", "H", "O", "M", "E", "_", "D", "E", "L", "I", "V", "E", "R", "Y">>, "ground_standard">>,
       <<<<"F", "E", "D", "E", "X", "_", "E", "X", "P", "R", "E", "S", "S", "_", "S", "A", "V", "E", "R">>, "air_3day">>,
       <<<<"F", "E", "D", "E", "X", "_", "2", "_", "D", "A", "Y">>, "air_2day">>,
       <<<<"F", "E", "D", "E", "X", "_", "2", "_", "D", "A", "Y", "_", "A", "M">>, "air_2day_early">>,
       <<<<"S", "T", "A", "N", "D", "A", "R", "D", "_", "O", "V", "E", "R", "N", "I", "G", "H", "T">>, "air_next_day">>,
       <<<<"P", "R", "I", "O", "R", "I", "T", "Y", "_", "O", "V", "E", "R", "N", "I", "G", "H", "T">>, "air_next_day_early">>,
       <<<<"F", "I", "R", "S", "T", "_", "O", "V", "E", "R", "N", "I", "G", "H", "T">>, "air_next_day_early">>,
       <<<<"I", "N", "T", "E", "R", "N", "A", "T", "I", "O", "N", "A", "L", "_", "E", "C", "O", "N", "O", "M", "Y">>, "air_intl_saver">>,
       <<<<"I", "N", "T", "E", "R", "N", "A", "T", "I", "O", "N", "A", "L", "_", "P", "R", "I", "O", "R", "I", "T", "Y">>, "air_intl_express">>,
       <<<<"I", "N", "T", "E", "R", "N", "A", "T", "I", "O", "N", "A", "L", "_", "F", "I", "R", "S", "T">>, "air_intl_express">>,
       <<<<"F", "E", "D", "E", "X", "_", "F", "R", "E", "I", "G", "H", "T", "_", "P", "R", "I", "O", "R", "I", "T", "Y">>, "freight_ltl">>,
       <<<<"F", "E", "D", "E", "X", "_", "F", "R", "E", "I", "G", "H", "T", "_", "E", "C", "O", "N", "O", "M", "Y">>, "freight_ltl">>,
       <<<<"F", "E", "D", "E", "X", "_", "F", "R", "E", "I", "G", "H", "T">>, "freight_ftl">>,
       <<<<"S", "M", "A", "R", "T", "_", "P", "O", "S", "T">>, "mail_innovations">>
    }

USPS_SERVICE_MAP ==
    {
       <<<<"P", "R", "I", "O", "R", "I", "T", "Y">>, "air_2day">>,
       <<<<"P", "R", "I", "O", "R", "I", "T", "Y", "_", "E", "X", "P", "R", "E", "S", "S">>, "air_next_day">>,
       <<<<"F", "I", "R", "S", "T", "_", "C", "L", "A", "S", "S">>, "ground_standard">>,
       <<<<"P", "A", "R", "C", "E", "L", "_", "S", "E", "L", "E", "C", "T">>, "ground_economy">>,
       <<<<"M", "E", "D", "I", "A", "_", "M", "A", "I", "L">>, "ground_economy">>,
       <<<<"P", "R", "I", "O", "R", "I", "T", "Y", "_", "M", "A", "I", "L", "_", "E", "X", "P", "R", "E", "S", "S", "_", "I", "N", "T", "E", "R", "N", "A", "T", "I", "O", "N", "A", "L">>, "air_intl_express">>,
       <<<<"P", "R", "I", "O", "R", "I", "T", "Y", "_", "M", "A", "I", "L", "_", "I", "N", "T", "E", "R", "N", "A", "T", "I", "O", "N", "A", "L">>, "air_intl_expedited">>,
       <<<<"F", "I", "R", "S", "T", "_", "C", "L", "A", "S", "S", "_", "P", "A", "C", "K", "A", "G", "E", "_", "I", "N", "T", "E", "R", "N", "A", "T", "I", "O", "N", "A", "L">>, "ground_standard">>
    }

DHL_SERVICE_MAP ==
    {
       <<<<"E", "X", "P", "R", "E", "S", "S", "_", "W", "O", "R", "L", "D", "W", "I", "D", "E">>, "air_intl_express">>,
       <<<<"E", "X", "P", "R", "E", "S", "S", "_", "1", "2", ":", "0", "0">>, "air_intl_express">>,
       <<<<"E", "X", "P", "R", "E", "S", "S", "_", "9", ":", "0", "0">>, "air_intl_express">>,
       <<<<"E", "X", "P", "R", "E", "S", "S", "_", "E", "A", "S", "Y">>, "air_intl_expedited">>,
       <<<<"E", "C", "O", "N", "O", "M", "Y", "_", "S", "E", "L", "E", "C", "T">>, "air_intl_saver">>,
       <<<<"G", "R", "O", "U", "N", "D">>, "ground_standard">>
    }

-----------------------------------------------------------------------------
(* Data classes.                                                           *)

\* Address(street, city, state, postal_code, country, latitude, longitude).
Address(street, city, state, postal_code, country, latitude, longitude) ==
    [ street |-> street, city |-> city, state |-> state,
      postal_code |-> postal_code, country |-> country,
      latitude |-> latitude, longitude |-> longitude ]

\* Python truthiness of an Optional[float]: None and 0.0 are false.
Truthy(opt) == opt # <<>> /\ opt[1] # 0

\* Address.to_string: the non-empty fields, in the order street, city, state,
\* postal code, country, joined with ", ".
RECURSIVE JoinParts(_)
JoinParts(parts) ==
    IF parts = <<>> THEN ""
    ELSE IF Len(parts) = 1 THEN parts[1]
    ELSE parts[1] \o ", " \o JoinParts(Tail(parts))

to_string(address) ==
    LET part(s) == IF s # "" THEN <<s>> ELSE <<>>
    IN  JoinParts(part(address.street) \o part(address.city) \o part(address.state)
                  \o part(address.postal_code) \o part(address.country))

\* PackageInfo: the fields the calculation reads.
PackageInfo(weight_kg, dimensions, origin, destination, service_code, service_description, carrier) ==
    [ weight_kg |-> weight_kg, dimensions |-> dimensions,
      origin |-> origin, destination |-> destination,
      service_code |-> service_code,
      service_description |-> service_description, carrier |-> carrier ]

\* PackageInfo.get_dimensional_weight_kg: volume / 5000, <<>> without dimensions.
get_dimensional_weight_kg(package) ==
    IF package.dimensions = <<>> THEN <<>>
    ELSE LET length == package.dimensions[1]
             width  == package.dimensions[2]
             height == package.dimensions[3]
             volume_cm3 == length * width * height
         IN  << (volume_cm3 * WeightUnitsPerKg) \div DimensionalDivisor >>

-----------------------------------------------------------------------------
(* Geocoding and distance (class DistanceCalculator).                      *)

NoCoords == <<>>

\* Coordinates the geocoding service may answer with (location.latitude,
\* location.longitude): a point in Massachusetts and one on the equator.
GeocoderCoords == { <<42, -71>>, <<0, 5>> }

\* geopy's geodesic(a, b).kilometers on the points of the model, to the km.
geodesic(a, b) ==
    LET Pair(p, q) == {a, b} = {p, q}
    IN  IF a = b THEN 0
        ELSE IF Pair(<<42, -71>>, <<0, 5>>)   THEN 8856
        ELSE IF Pair(<<42, -71>>, <<51, 0>>)  THEN 5325
        ELSE IF Pair(<<42, -71>>, <<43, -79>>) THEN 667
        ELSE IF Pair(<<0, 5>>, <<51, 0>>)     THEN 5672
        ELSE IF Pair(<<0, 5>>, <<43, -79>>)   THEN 9522
        ELSE 5781  \* (51, 0) - (43, -79)

\* self.cache[addr_string] = coords
CachePut(c, addr_string, coords) ==
    [k \in (DOMAIN c) \cup {addr_string} |-> IF k = addr_string THEN coords ELSE c[k]]

\* What a geocode_address call leaves behind: the pair returned, the cache,
\* and the numbers of geocoder requests and cache lookups made; the number of
\* iterations of the retry loop begun, the number of them that ended in the
\* except clause, the exception the call raised ("" when it returned), and
\* the geocoder requests of the call in the order they were made.
GeocodeOutcome(coords, c, requests, lookups) ==
    [ coords |-> coords, cache |-> c, geocoder_calls |-> requests,
      cache_lookups |-> lookups, attempts |-> 0, transient_errors |-> 0,
      raised |-> "", queries |-> <<>> ]

\* The outcome of a call that ends in iteration `attempt` of the retry loop,
\* after `failed` iterations ended in the except clause and the geocoder
\* requests `requests`.
AttemptOutcome(coords, c, requests, attempt, failed) ==
    [ GeocodeOutcome(coords, c, Len(requests), 1)
        EXCEPT !.attempts = attempt + 1, !.transient_errors = failed,
               !.queries = requests ]

\* The answers self.geocoder.geocode(query, timeout=10) may give: a location
\* (with its coordinates), None ("empty"), or a GeocoderTimedOut /
\* GeocoderServiceError ("error").
GeocoderAnswers ==
    { [kind |-> "location", coords |-> coords] : coords \in GeocoderCoords }
      \cup { [kind |-> "empty", coords |-> NoCoords], [kind |-> "error", coords |-> NoCoords] }

\* A geocoding service about which nothing is fixed: it may answer any
\* request in any way.
AnyGeocoder == [query \in {} |-> [kind |-> "empty", coords |-> NoCoords]]

\* A request that may also come back empty where the service has a location.
geocode_unpredictable(query) ==
    IF query \in DOMAIN geocoder
    THEN { geocoder[query], [kind |-> "empty", coords |-> NoCoords] }
    ELSE GeocoderAnswers

\* self.geocoder.geocode(query, timeout=10): the answers possible; the one
\* answer of a service that answers this query always the same way.
geocode(query) ==
    IF query \in DOMAIN geocoder THEN { geocoder[query] } ELSE GeocoderAnswers

\* One self.geocoder.geocode(query, timeout=10) of iteration `attempt`, and
\* what the service answered.
GeocoderRequest(attempt, query, answer) ==
    [ attempt |-> attempt, query |-> query, kind |-> answer.kind,
      coords |-> answer.coords ]

RECURSIVE GeocodeAttempts(_, _, _, _)

\* The except clause with the last iteration letting the error out.
except_geocoder_error_raises(address, c, attempt, requests) ==
    IF attempt < max_retries - 1
    THEN GeocodeAttempts(address, c, attempt + 1, requests)
    ELSE { [ AttemptOutcome(NoCoords, c, requests, attempt, attempt + 1)
               EXCEPT !.raised = "GeocoderTimedOut" ] }

\* except (GeocoderTimedOut, GeocoderServiceError) in iteration `attempt`
\* (lines 197-203): the next iteration, or (None, None) from the last one.
except_geocoder_error(address, c, attempt, requests) ==
    IF attempt < max_retries - 1
    THEN GeocodeAttempts(address, c, attempt + 1, requests)
    ELSE { AttemptOutcome(NoCoords, c, requests, attempt, attempt + 1) }

\* The final return with the failure remembered in the cache.
cache_after_not_found_negative(c, addr_string) ==
    CachePut(c, addr_string, NoCoords)

\* Lines 193-194, "Could not geocode" and return None, None: the cache is
\* left as it is, nothing is stored for the address.
cache_after_not_found(c, addr_string) ==
    c

\* The fallback tried before the other one.
first_fallback_postal(address) ==
    [ first  |-> [ tried |-> address.postal_code # "" /\ address.country # "",
                   query |-> address.postal_code \o ", " \o address.country ],
      second |-> [ tried |-> address.city # "" /\ address.country # "",
                   query |-> address.city \o ", " \o address.country ] ]

\* The two fallback requests of an iteration in the order of the code: "Try
\* city + country" (lines 173-181), then "Try postal code + country" (lines
\* 183-191), each made only if both of its fields are non-empty.
fallbacks(address) ==
    [ first  |-> [ tried |-> address.city # "" /\ address.country # "",
                   query |-> address.city \o ", " \o address.country ],
      second |-> [ tried |-> address.postal_code # "" /\ address.country # "",
                   query |-> address.postal_code \o ", " \o address.country ] ]

\* The loop `for attempt in range(max_retries)` of geocode_address from
\* iteration `attempt` on, `requests` being the geocoder requests made so
\* far: the set of outcomes over every behaviour of the geocoding service,
\* which answers each request with a location, with nothing, or with a
\* GeocoderTimedOut / GeocoderServiceError.  Iteration `attempt` is begun
\* after `attempt` iterations that ended in the except clause.
GeocodeAttempts(address, c, attempt, requests) ==
    LET addr_string == to_string(address)
        Empty == [kind |-> "empty", coords |-> NoCoords]
        Found(coords, made) == { AttemptOutcome(coords, CachePut(c, addr_string, coords),
                                                made, attempt, attempt) }
        NotFound(made) == { AttemptOutcome(NoCoords, cache_after_not_found(c, addr_string),
                                           made, attempt, attempt) }
        Failed(made) == except_geocoder_error(address, c, attempt, made)
        \* location = self.geocoder.geocode(query) after the requests `made`;
        \* otherwise is the set of outcomes when the location is None.
        Request(query, made, otherwise) ==
            UNION { LET now == Append(made, GeocoderRequest(attempt, query, answer))
                    IN  IF answer.kind = "error" THEN Failed(now)
                        ELSE IF answer.kind = "empty" THEN otherwise
                        ELSE Found(answer.coords, now)
                      : answer \in geocode(query) }
        After(query, made) == Append(made, GeocoderRequest(attempt, query, Empty))
        \* the second fallback, then the final return None, None
        Second(made) ==
            LET fallback == fallbacks(address).second
            IN  IF fallback.tried
                THEN Request(fallback.query, made, NotFound(After(fallback.query, made)))
                ELSE NotFound(made)
        \* the first fallback
        First(made) ==
            LET fallback == fallbacks(address).first
            IN  IF fallback.tried
                THEN Request(fallback.query, made, Second(After(fallback.query, made)))
                ELSE Second(made)
    IN  Request(addr_string, requests, First(After(addr_string, requests)))

\* geocode_address without the cache test: every call asks the geocoder.
geocode_address_uncached(address, c) ==
    IF Truthy(address.latitude) /\ Truthy(address.longitude)
    THEN { GeocodeOutcome(<<address.latitude[1], address.longitude[1]>>, c, 0, 0) }
    ELSE GeocodeAttempts(address, c, 0, <<>>)

\* DistanceCalculator.geocode_address(address) on cache c.
geocode_address(address, c) ==
    IF Truthy(address.latitude) /\ Truthy(address.longitude)
    THEN { GeocodeOutcome(<<address.latitude[1], address.longitude[1]>>, c, 0, 0) }
    ELSE IF to_string(address) \in DOMAIN c
    THEN { GeocodeOutcome(c[to_string(address)], c, 0, 1) }
    ELSE GeocodeAttempts(address, c, 0, <<>>)

\* The policy defaults with the air tier tested before the country tier.
default_distance_air_first(origin, destination, service_type) ==
    IF StrContains(StrLower(service_type), <<"a", "i", "r">>)
    THEN DEFAULT_DISTANCES.domestic_air
    ELSE IF origin.country # "" /\ destination.country # ""
            /\ origin.country # destination.country
    THEN DEFAULT_DISTANCES.international
    ELSE DEFAULT_DISTANCES.domestic_ground

\* The policy defaults of calculate_distance (lines 221-227).
default_distance(origin, destination, service_type) ==
    IF origin.country # "" /\ destination.country # ""
       /\ origin.country # destination.country
    THEN DEFAULT_DISTANCES.international
    ELSE IF StrContains(StrLower(service_type), <<"a", "i", "r">>)
    THEN DEFAULT_DISTANCES.domestic_air
    ELSE DEFAULT_DISTANCES.domestic_ground

\* Truthiness of origin_coords[0]: the latitude of the pair, None or 0.0 false.
FirstTruthy(coords) == coords # NoCoords /\ coords[1] # 0

\* What a calculate_distance call leaves behind, given the outcomes o and d of
\* its two geocode_address calls (lines 211-227).
DistanceOutcome(origin, destination, service_type, o, d) ==
    [ distance |-> IF FirstTruthy(o.coords) /\ FirstTruthy(d.coords)
                   THEN geodesic(o.coords, d.coords)
                   ELSE default_distance(origin, destination, service_type),
      origin_coords |-> o.coords,
      dest_coords |-> d.coords,
      cache |-> d.cache,
      geocoder_calls |-> o.geocoder_calls + d.geocoder_calls,
      cache_lookups |-> o.cache_lookups + d.cache_lookups ]

\* DistanceCalculator.calculate_distance(origin, destination, service_type) on
\* cache c: the set of outcomes.  The destination is geocoded on the cache the
\* geocoding of the origin left.
calculate_distance(origin, destination, service_type, c) ==
    LET \* what calculate_distance has of a geocode_address call: the pair
        \* returned, the cache and the counts (not the requests made)
        geocoded(address, cc) ==
            { [ coords |-> g.coords, cache |-> g.cache,
                geocoder_calls |-> g.geocoder_calls,
                cache_lookups |-> g.cache_lookups ]
                : g \in geocode_address(address, cc) }
    IN  UNION { { DistanceOutcome(origin, destination, service_type, o, d)
                    : d \in geocoded(destination, o.cache) }
                : o \in geocoded(origin, c) }

-----------------------------------------------------------------------------
(* Carrier adapters and the factory.                                       *)

S_ups == <<"u", "p", "s">>
S_usps == <<"u", "s", "p", "s">>
S_fedex == <<"f", "e", "d", "e", "x">>
S_dhl == <<"d", "h", "l">>
S_default == <<"d", "e", "f", "a", "u", "l", "t">>

\* CarrierFactory._adapters as the class body sets it.
BuiltinAdapters ==
    { <<S_ups, "UPSAdapter">>, <<S_usps, "USPSAdapter">>,
      <<S_fedex, "FedExAdapter">>, <<S_dhl, "DHLAdapter">> }

\* Adapter classes a caller may register: an implementation of the
\* CarrierAdapter interface whose get_transport_mode returns one fixed mode.
\* The class is named by that mode.
CustomAdapterClasses == { "last_mile", "rail" }

\* get_transport_mode indexing the table without a default: no mode ("") for
\* a code that is not a key.
get_transport_mode_no_default(adapter_class, service_code) ==
    IF adapter_class = "UPSAdapter"
    THEN DictGet(UPS_SERVICE_TO_MODE, service_code, "")
    ELSE IF adapter_class = "USPSAdapter"
    THEN DictGet(USPS_SERVICE_TO_MODE, StrUpper(service_code), "")
    ELSE IF adapter_class = "FedExAdapter"
    THEN DictGet(FedEx_SERVICE_TO_MODE, StrUpper(service_code), "")
    ELSE IF adapter_class = "DHLAdapter"
    THEN DictGet(DHL_SERVICE_TO_MODE, StrUpper(service_code), "")
    ELSE adapter_class

\* adapter.get_transport_mode(service_code) of an instance of adapter_class.
get_transport_mode(adapter_class, service_code) ==
    IF adapter_class = "UPSAdapter"
    THEN DictGet(UPS_SERVICE_TO_MODE, service_code,
                 DictGet(UPS_SERVICE_TO_MODE, S_default, ""))
    ELSE IF adapter_class = "USPSAdapter"
    THEN DictGet(USPS_SERVICE_TO_MODE, StrUpper(service_code),
                 DictGet(USPS_SERVICE_TO_MODE, S_default, ""))
    ELSE IF adapter_class = "FedExAdapter"
    THEN DictGet(FedEx_SERVICE_TO_MODE, StrUpper(service_code),
                 DictGet(FedEx_SERVICE_TO_MODE, S_default, ""))
    ELSE IF adapter_class = "DHLAdapter"
    THEN DictGet(DHL_SERVICE_TO_MODE, StrUpper(service_code),
                 DictGet(DHL_SERVICE_TO_MODE, S_default, ""))
    ELSE adapter_class

\* CarrierFactory.create_adapter(carrier) on registry reg: <<>> when it raises
\* ValueError, else <<adapter class>>.
create_adapter(reg, carrier) ==
    LET carrier_lower == StrLower(carrier)
    IN  IF \E p \in reg : p[1] = carrier_lower
        THEN << (CHOOSE p \in reg : p[1] = carrier_lower)[2] >>
        ELSE <<>>

\* CarrierFactory.register_adapter(carrier, adapter_class) on registry reg.
register_adapter(reg, carrier, adapter_class) ==
    { p \in reg : p[1] # StrLower(carrier) } \cup { <<StrLower(carrier), adapter_class>> }

\* get_service_type looking up the upper-cased code for UPS as well.
get_service_type_upper_ups(carrier, service_code) ==
    LET carrier_lower == StrStrip(StrLower(carrier))
        service_code_upper == StrStrip(StrUpper(service_code))
    IN  IF carrier_lower = S_ups
        THEN DictGet(UPS_SERVICE_MAP, service_code_upper, "ground_standard")
        ELSE IF carrier_lower = S_fedex
        THEN DictGet(FEDEX_SERVICE_MAP, service_code_upper, "ground_standard")
        ELSE IF carrier_lower = S_usps
        THEN DictGet(USPS_SERVICE_MAP, service_code_upper, "ground_standard")
        ELSE IF carrier_lower = S_dhl
        THEN DictGet(DHL_SERVICE_MAP, service_code_upper, "ground_standard")
        ELSE "ground_standard"

\* CarrierServiceMapper.get_service_type(carrier, service_code): the value of
\* the ServiceType member returned.
get_service_type(carrier, service_code) ==
    LET carrier_lower == StrStrip(StrLower(carrier))
        service_code_upper == StrStrip(StrUpper(service_code))
    IN  IF carrier_lower = S_ups
        THEN DictGet(UPS_SERVICE_MAP, service_code, "ground_standard")
        ELSE IF carrier_lower = S_fedex
        THEN DictGet(FEDEX_SERVICE_MAP, service_code_upper, "ground_standard")
        ELSE IF carrier_lower = S_usps
        THEN DictGet(USPS_SERVICE_MAP, service_code_upper, "ground_standard")
        ELSE IF carrier_lower = S_dhl
        THEN DictGet(DHL_SERVICE_MAP, service_code_upper, "ground_standard")
        ELSE "ground_standard"

-----------------------------------------------------------------------------
(* The emissions engine (class EmissionsCalculator).                       *)

\* calculate_emissions with the factor of its default mode for every mode.
calculate_emissions_default_factor(weight_kg, distance_km, transport_mode) ==
    weight_kg * distance_km * EMISSION_FACTORS.truck_average

\* EmissionsCalculator.calculate_emissions(weight_kg, distance_km, transport_mode).
calculate_emissions(weight_kg, distance_km, transport_mode) ==
    LET emission_factor == EMISSION_FACTORS[transport_mode]
        tonne_km == weight_kg * distance_km
    IN  tonne_km * emission_factor

\* The chargeable weight with the dimensional weight taken when it is equal too.
chargeable_weight_not_strict(package) ==
    LET weight_kg == package.weight_kg * WeightUnitsPerKg
        dim_weight == get_dimensional_weight_kg(package)
    IN  IF package.dimensions # <<>> /\ Truthy(dim_weight) /\ dim_weight[1] >= weight_kg
        THEN [weight_kg |-> dim_weight[1], is_dimensional |-> TRUE]
        ELSE [weight_kg |-> weight_kg, is_dimensional |-> FALSE]

\* Lines 902-911: the chargeable weight and the dimensional flag.
chargeable_weight(package) ==
    LET weight_kg == package.weight_kg * WeightUnitsPerKg
        dim_weight == get_dimensional_weight_kg(package)
    IN  IF package.dimensions # <<>> /\ Truthy(dim_weight) /\ dim_weight[1] > weight_kg
        THEN [weight_kg |-> dim_weight[1], is_dimensional |-> TRUE]
        ELSE [weight_kg |-> weight_kg, is_dimensional |-> FALSE]

Segment(segment, mode, distance_km, weight_kg, emission_factor, emissions_kg) ==
    [ segment |-> segment, mode |-> mode, distance_km |-> distance_km,
      weight_kg |-> weight_kg, emission_factor |-> emission_factor,
      emissions_kg |-> emissions_kg ]

\* The total without the last-mile emissions.
total_emissions_main_only(transport_mode, main_emissions, last_mile_emissions) ==
    main_emissions

\* Lines 942-950: the total, to which the last-mile emissions are added unless
\* the main leg is itself last-mile.
total_emissions(transport_mode, main_emissions, last_mile_emissions) ==
    IF transport_mode # "last_mile"
    THEN main_emissions + last_mile_emissions
    ELSE main_emissions

\* The breakdown with the last-mile segment appended whatever the mode.
breakdown_always_last_mile(transport_mode, main_segment, last_mile_segment) ==
    <<main_segment, last_mile_segment>>

\* Lines 933-959: the breakdown, the main-transit segment first and the
\* last-mile segment appended unless the main leg is itself last-mile.
breakdown(transport_mode, main_segment, last_mile_segment) ==
    IF transport_mode # "last_mile"
    THEN <<main_segment, last_mile_segment>>
    ELSE <<main_segment>>

\* The chargeable weight written back to the package the result refers to.
result_package_info_chargeable(package, w) ==
    [package EXCEPT !.weight_kg = w.weight_kg \div WeightUnitsPerKg]

\* package_info=package_info (line 969): the result refers to the object the
\* caller passed in, which no statement of the method has assigned to (the
\* chargeable weight is the local weight_kg).
result_package_info(package, w) ==
    package

\* Lines 929-970: the segments, the total and the EmissionResult, for the
\* chargeable weight w, the distance and the classified mode.
build_result(package, w, distance_km, transport_mode) ==
    LET emission_factor == EMISSION_FACTORS[transport_mode]
        main_emissions == calculate_emissions(w.weight_kg, distance_km, transport_mode)
        main_segment == Segment("Main Transit", transport_mode, distance_km,
                                w.weight_kg, emission_factor, main_emissions)
        last_mile_distance == DEFAULT_DISTANCES.last_mile
        last_mile_emissions == calculate_emissions(w.weight_kg, last_mile_distance, "last_mile")
        last_mile_segment == Segment("Last Mile Delivery", "last_mile", last_mile_distance,
                                     w.weight_kg, EMISSION_FACTORS.last_mile,
                                     last_mile_emissions)
    IN  [ total_emissions_kg |-> total_emissions(transport_mode, main_emissions,
                                                 last_mile_emissions),
          weight_used_kg |-> w.weight_kg,
          is_dimensional |-> w.is_dimensional,
          distance_km |-> distance_km,
          transport_mode |-> transport_mode,
          emission_factor |-> emission_factor,
          breakdown |-> breakdown(transport_mode, main_segment, last_mile_segment),
          package_info |-> result_package_info(package, w) ]

\* What a calculate_from_package_info call leaves behind.
CalculationOutcome(res, exc, c, requests, lookups) ==
    [ result |-> res, raised |-> exc, cache |-> c,
      geocoder_calls |-> requests, cache_lookups |-> lookups ]

\* Lines 925-970 for one outcome dist of calculate_distance: the adapter, the
\* mode, the factor lookup (KeyError for a mode outside the table) and the result.
finish_calculation(package, w, dist, reg) ==
    LET adapter == create_adapter(reg, StrLower(package.carrier))
        transport_mode == get_transport_mode(adapter[1], StrOr(package.service_code, <<>>))
    IN  IF adapter = <<>>
        THEN CalculationOutcome(<<>>, "ValueError", dist.cache,
                                dist.geocoder_calls, dist.cache_lookups)
        ELSE IF transport_mode \notin DOMAIN EMISSION_FACTORS
        THEN CalculationOutcome(<<>>, "KeyError", dist.cache,
                                dist.geocoder_calls, dist.cache_lookups)
        ELSE CalculationOutcome(<< build_result(package, w, dist.distance, transport_mode) >>,
                                "", dist.cache, dist.geocoder_calls, dist.cache_lookups)

\* The missing-address case raising instead of returning None.
missing_address_raises(c) == CalculationOutcome(<<>>, "ValueError", c, 0, 0)

\* Lines 914-916: the return of None for a package without both addresses.
missing_address(c) == CalculationOutcome(<<>>, "", c, 0, 0)

\* calculate_from_package_info giving up (None) when an address has no coordinates.
calculate_from_package_info_needs_coords(package, c, reg) ==
    LET w == chargeable_weight(package)
    IN  IF package.origin = <<>> \/ package.destination = <<>>
        THEN { missing_address(c) }
        ELSE { IF dist.origin_coords = NoCoords \/ dist.dest_coords = NoCoords
               THEN CalculationOutcome(<<>>, "", dist.cache, dist.geocoder_calls,
                                       dist.cache_lookups)
               ELSE finish_calculation(package, w, dist, reg)
                 : dist \in calculate_distance(package.origin[1], package.destination[1],
                                               StrOr(package.service_description,
                                                     <<"g", "r", "o", "u", "n", "d">>),
                                               c) }

\* EmissionsCalculator.calculate_from_package_info(package_info) on cache c and
\* adapter registry reg: the set of outcomes.
calculate_from_package_info(package, c, reg) ==
    LET w == chargeable_weight(package)
    IN  IF package.origin = <<>> \/ package.destination = <<>>
        THEN { missing_address(c) }
        ELSE { finish_calculation(package, w, dist, reg)
                 : dist \in calculate_distance(package.origin[1], package.destination[1],
                                               StrOr(package.service_description,
                                                     <<"g", "r", "o", "u", "n", "d">>),
                                               c) }

-----------------------------------------------------------------------------
(* Carrier payloads and parse_tracking_data of the four adapters.          *)
(*                                                                         *)
(* The JSON document a carrier answers a tracking request with is held as  *)
(* a record of the parts the parsers read:                                 *)
(*   structure   TRUE when the document has the top-level shape the parser *)
(*               of its carrier navigates, FALSE otherwise;                *)
(*   weight      <<>> when the package has no weight element, else         *)
(*               <<[value, unit]>>: value is <<>> (no value key) or <<v>>  *)
(*               with v a number [is_number |-> TRUE, n |-> ...] or a text *)
(*               that float() rejects; unit is <<>> (no unit key) or a     *)
(*               string;                                                   *)
(*   origin, destination   <<>> or <<[city, state, postal_code, country]>>,*)
(*               country "" when the document has no country key;          *)
(*   service     <<>> or <<[code, description]>>.                          *)
(* Weights that the parsers compute are exact in milligrams.               *)

MilligramsPerKg == 1000000

\* The factor 0.453592 of the pound conversions, in mg per lb.
MilligramsPerLb == 453592

\* `weight_kg = 2.27  # Default` of the USPS, FedEx and DHL parsers, in mg.
DefaultWeight == 2270000

\* The default 5.0 of weight_data.get('weight', 5.0) and its like.
DefaultWeightValue == [is_number |-> TRUE, n |-> 5]

\* str.replace(' ', '_')
ReplaceSpaces(s) == [i \in 1..Len(s) |-> IF s[i] = " " THEN "_" ELSE s[i]]

\* What a parser leaves behind: <<PackageInfo>> with the weight in mg, or
\* <<>> for None.
Parsed(weight_mg, origin, destination, service_code, service_description, carrier) ==
    << PackageInfo(weight_mg, <<>>, origin, destination, service_code,
                   service_description, carrier) >>

\* Address(city=..., state=..., postal_code=..., country=...) of a payload
\* address, with `country` the value the parser computed.
ParsedAddress(addr, country) ==
    IF addr = <<>> THEN <<>>
    ELSE << Address("", addr[1].city, addr[1].state, addr[1].postal_code,
                    country, <<>>, <<>>) >>

\* dict.get('countryCode', 'US')
CountryOrUS(addr) ==
    IF addr # <<>> /\ addr[1].country # "" THEN addr[1].country ELSE "US"

\* float(value) * factor: <<>> when float raises ValueError.
weight_of_value(value, factor) ==
    IF value.is_number THEN <<value.n * factor>> ELSE <<>>

\* UPSAdapter.parse_tracking_data, the weight: <<>> when the parser raises
\* (float of a text, or the format of weight_kg = None in the print).
ups_weight(data) ==
    IF data.weight = <<>> THEN <<>>
    ELSE LET weight_data == data.weight[1]
             unit == StrUpper(IF weight_data.unit = <<>> THEN <<"L", "B", "S">>
                              ELSE weight_data.unit[1])
             weight_value == IF weight_data.value = <<>> THEN DefaultWeightValue
                             ELSE weight_data.value[1]
         IN  IF unit = <<"K", "G", "S">> THEN weight_of_value(weight_value, MilligramsPerKg)
             ELSE weight_of_value(weight_value, MilligramsPerLb)

\* USPSAdapter.parse_tracking_data, the weight: track_info['weight'] is the
\* value itself, in pounds.
usps_weight(data) ==
    IF data.weight = <<>> \/ data.weight[1].value = <<>> THEN <<DefaultWeight>>
    ELSE weight_of_value(data.weight[1].value[1], MilligramsPerLb)

\* FedExAdapter.parse_tracking_data, the weight.
fedex_weight(data) ==
    IF data.weight = <<>> THEN <<DefaultWeight>>
    ELSE LET weight_info == data.weight[1]
             weight_value == IF weight_info.value = <<>> THEN DefaultWeightValue
                             ELSE weight_info.value[1]
             unit == IF weight_info.unit = <<>> THEN <<"L", "B">> ELSE weight_info.unit[1]
         IN  IF unit = <<"K", "G">> THEN weight_of_value(weight_value, MilligramsPerKg)
             ELSE weight_of_value(weight_value, MilligramsPerLb)

\* DHLAdapter.parse_tracking_data, the weight.
dhl_weight(data) ==
    IF data.weight = <<>> THEN <<DefaultWeight>>
    ELSE LET weight_info == data.weight[1]
             weight_value == IF weight_info.value = <<>> THEN DefaultWeightValue
                             ELSE weight_info.value[1]
             unit == IF weight_info.unit = <<>> THEN <<"k", "g">> ELSE weight_info.unit[1]
         IN  IF StrLower(unit) = <<"l", "b">>
             THEN weight_of_value(weight_value, MilligramsPerLb)
             ELSE weight_of_value(weight_value, MilligramsPerKg)

\* adapter.parse_tracking_data(tracking_data) of an instance of
\* adapter_class: <<PackageInfo>> or <<>> (None).
parse_tracking_data(adapter_class, data) ==
    LET code == IF data.service = <<>> THEN <<>> ELSE <<data.service[1].code>>
        desc == IF data.service = <<>> THEN <<>> ELSE <<data.service[1].description>>
        \* dict.get(key, default)
        Get(opt, default) == IF opt = <<>> THEN default ELSE opt[1]
    IN  IF ~data.structure THEN <<>>
        ELSE IF adapter_class = "UPSAdapter"
        THEN IF ups_weight(data) = <<>> THEN <<>>
             ELSE Parsed(ups_weight(data)[1],
                         ParsedAddress(data.origin, CountryOrUS(data.origin)),
                         ParsedAddress(data.destination, CountryOrUS(data.destination)),
                         Get(code, <<"0", "3">>),
                         Get(desc, <<"G", "r", "o", "u", "n", "d">>),
                         <<"U", "P", "S">>)
        ELSE IF adapter_class = "USPSAdapter"
        THEN IF usps_weight(data) = <<>> THEN <<>>
             ELSE Parsed(usps_weight(data)[1],
                         ParsedAddress(data.origin, "US"),
                         ParsedAddress(data.destination, "US"),
                         ReplaceSpaces(StrUpper(Get(code, <<"P", "R", "I", "O", "R", "I", "T", "Y">>))),
                         Get(desc, <<"P", "r", "i", "o", "r", "i", "t", "y", " ", "M", "a", "i", "l">>),
                         <<"U", "S", "P", "S">>)
        ELSE IF adapter_class = "FedExAdapter"
        THEN IF fedex_weight(data) = <<>> THEN <<>>
             ELSE Parsed(fedex_weight(data)[1],
                         ParsedAddress(data.origin, CountryOrUS(data.origin)),
                         ParsedAddress(data.destination, CountryOrUS(data.destination)),
                         Get(code, <<"F", "E", "D", "E", "X", "_", "G", "R", "O", "U", "N", "D">>),
                         Get(desc, <<"F", "e", "d", "E", "x", " ", "G", "r", "o", "u", "n", "d">>),
                         <<"F", "e", "d", "E", "x">>)
        ELSE IF adapter_class = "DHLAdapter"
        THEN IF dhl_weight(data) = <<>> THEN <<>>
             ELSE Parsed(dhl_weight(data)[1],
                         ParsedAddress(data.origin, CountryOrUS(data.origin)),
                         ParsedAddress(data.destination, CountryOrUS(data.destination)),
                         Get(code, <<"E", "X", "P", "R", "E", "S", "S", "_", "W", "O", "R", "L", "D", "W", "I", "D", "E">>),
                         Get(desc, <<"E", "x", "p", "r", "e", "s", "s", " ", "W", "o", "r", "l", "d", "w", "i", "d", "e">>),
                         <<"D", "H", "L">>)
        ELSE <<>>

-----------------------------------------------------------------------------
(* The batch processor (csv_batch_processor.py, class                      *)
(* BatchEmissionsProcessor).  A row of the CSV file is its tracking number *)
(* and carrier cells, its length_cm cell (<<>> when empty; width_cm and    *)
(* height_cm are numeric) and what calculate_package_emissions does for    *)
(* that tracking number: it returns a result ("result"), returns None      *)
(* ("none") or raises ("raises").  A record of the result list keeps the   *)
(* tracking_number, status and error_message keys of the dict the code     *)
(* builds ("" for None) and its _index.                                    *)

\* str.rstrip('_')
RECURSIVE RStripUnderscore(_)
RStripUnderscore(s) ==
    IF s # <<>> /\ s[Len(s)] = "_"
    THEN RStripUnderscore(SubSeq(s, 1, Len(s) - 1))
    ELSE s

\* float(text): whether the text of a cell parses as a number (otherwise
\* float raises ValueError).
FloatParses(text) ==
    /\ text # <<>>
    /\ \A i \in 1..Len(text) :
         text[i] \in { "0", "1", "2", "3", "4", "5", "6", "7", "8", "9", "." }
    /\ Cardinality({ i \in 1..Len(text) : text[i] = "." }) <= 1
    /\ \E i \in 1..Len(text) : text[i] # "."

\* What _process_single_package leaves behind: the dict it returns (<<>>
\* when it raises), the entries it appended to self.errors and the
\* exception it raised ("" when it returned).
PackageOutcome(record, appended, exc) ==
    [ result |-> record, errors |-> appended, raised |-> exc ]

\* The dict returned for a row that failed, and its entry in self.errors.
FailedPackage(tracking_number, carrier, status, error_msg) ==
    PackageOutcome(<< [ tracking_number |-> tracking_number, status |-> status,
                        error_message |-> error_msg ] >>,
                   << [ tracking_number |-> tracking_number, carrier |-> carrier,
                        error |-> error_msg ] >>,
                   "")

\* BatchEmissionsProcessor._process_single_package(row, ...) of a processor
\* whose credentials dict has the keys `credentials`.
process_single_package(credentials, row) ==
    LET tracking_number == RStripUnderscore(StrStrip(row.tracking_number))
        carrier == StrLower(StrStrip(row.carrier))
    IN  IF carrier \notin credentials
        THEN IF carrier \in { <<"a", "m", "a", "z", "o", "n">>,
                              <<"l", "a", "s", "e", "r", "s", "h", "i", "p">> }
             THEN FailedPackage(tracking_number, carrier, "unsupported",
                                "Carrier not supported (no public tracking API)")
             ELSE FailedPackage(tracking_number, carrier, "unsupported",
                                "Carrier not configured")
        \* float(row['length_cm']), before the try block
        ELSE IF row.length_cm # <<>> /\ ~FloatParses(row.length_cm)
        THEN PackageOutcome(<<>>, <<>>, "ValueError")
        ELSE IF row.outcome = "result"
        THEN PackageOutcome(<< [ tracking_number |-> tracking_number,
                                 status |-> "success", error_message |-> "" ] >>,
                            <<>>, "")
        ELSE IF row.outcome = "none"
        THEN FailedPackage(tracking_number, carrier, "error", "Calculation failed")
        ELSE FailedPackage(tracking_number, carrier, "error", "Exception")

\* _process_single_package_wrapper(idx, row, ...): the dict with
\* result['_index'] = idx.
process_single_package_wrapper(credentials, idx, row) ==
    LET out == process_single_package(credentials, row)
    IN  IF out.raised # "" THEN out
        ELSE [ out EXCEPT !.result =
                 << [ _index |-> idx,
                      tracking_number |-> out.result[1].tracking_number,
                      status |-> out.result[1].status,
                      error_message |-> out.result[1].error_message ] >> ]

\* list.sort(key=...) is stable: an element goes before the first element
\* of the sorted rest whose key is not smaller.
RECURSIVE StableSortByIndex(_)
StableSortByIndex(lst) ==
    IF lst = <<>> THEN <<>>
    ELSE LET x == Head(lst)
             rest == StableSortByIndex(Tail(lst))
             before == { k \in 1..Len(rest) : rest[k]._index < x._index }
         IN  SubSeq(rest, 1, Cardinality(before)) \o <<x>>
               \o SubSeq(rest, Cardinality(before) + 1, Len(rest))

\* The result list left in the order the futures completed.
sort_results_as_completed(lst) == lst

\* self.results.sort(key=lambda x: x.get('_index', 0))
sort_results(lst) == StableSortByIndex(lst)

-----------------------------------------------------------------------------
(* Inputs.                                                                 *)

\* An address to geocode by city and country.
AddrWorcester == Address("", "Worcester", "MA", "", "US", <<>>, <<>>)
\* An address to geocode by postal code and country.
AddrToronto == Address("", "", "", "M5V", "CA", <<>>, <<>>)
\* An address that carries coordinates.
AddrCampus == Address("100 Institute Rd", "Worcester", "MA", "01609", "US", <<42>>, <<-71>>)
\* An address on the equator that carries coordinates, without a country.
AddrEquator == Address("", "Atlantic", "", "", "", <<0>>, <<5>>)
\* An address on the prime meridian that carries coordinates.
AddrGreenwich == Address("", "", "", "", "GB", <<51>>, <<0>>)

\* The address of AddrCampus as text only: the same query string, no coordinates.
AddrCampusText == Address("100 Institute Rd", "Worcester", "MA", "01609", "US", <<>>, <<>>)

\* An address without a country and without coordinates.
AddrNoCountry == Address("", "Atlantic", "", "", "", <<>>, <<>>)

\* Addresses geocoded by a client that records the requests sent to the
\* geocoding service: with a city, with a postal code, with both, with
\* neither fallback possible, and one that carries coordinates.
TracedAddresses == { AddrWorcester, AddrToronto, AddrCampusText, AddrNoCountry, AddrCampus }

\* Two addresses with the same text, in the street field of one and in the
\* city field of the other: to_string gives the same string for both.
AddrSplitStreet == Address("Springfield", "", "", "62701", "US", <<>>, <<>>)
AddrSplitCity == Address("", "Springfield", "", "62701", "US", <<>>, <<>>)

\* Addresses geocoded on one DistanceCalculator with a geocoding service that
\* answers each query always the same way.
SplitAddresses == { AddrSplitStreet, AddrSplitCity, AddrWorcester }

\* Addresses of the DistanceCalculator operations.
Addresses == { AddrWorcester, AddrToronto, AddrCampus, AddrEquator, AddrGreenwich }

\* Addresses a client geocodes one after the other on one DistanceCalculator.
LookupAddresses == { AddrWorcester, AddrToronto, AddrCampus, AddrCampusText, AddrEquator }

\* Addresses of the packages given to the engine.
PackageAddresses == { AddrWorcester, AddrCampus }

\* service_type / service_description texts.
ServiceTexts ==
    { <<>>,
      <<"G", "r", "o", "u", "n", "d">>,
      <<"2", "n", "d", " ", "D", "a", "y", " ", "A", "I", "R">> }

Weights == (0 - 1)..MaxWeight

\* No dimensions; volumetric weight 12 kg, 2 kg, 0.2 kg; a zero and a negative side.
Dimensions ==
    { <<>>, <<50, 40, 30>>, <<10, 10, 100>>, <<10, 10, 10>>, <<0, 40, 30>>,
      <<0 - 10, 10, 10>> }

Carriers ==
    { S_ups,
      <<"D", "H", "L">>,
      <<"u", "n", "k", "n", "o", "w", "n">>,
      <<"L", "o", "c", "a", "l">> }

ServiceCodes == { <<>>, <<"0", "1">>, <<"g", "r", "o", "u", "n", "d">> }

\* Carrier identifiers to classify for: the four of the factory, two of them
\* in another letter case, the PackageInfo default and one without an adapter.
ClassifyCarriers ==
    { S_ups, S_usps, S_fedex, S_dhl,
      <<"U", "P", "S">>,
      <<"F", "e", "d", "E", "x">>,
      <<"u", "n", "k", "n", "o", "w", "n">>,
      <<"a", "m", "a", "z", "o", "n">> }

\* Every key of the service-code tables of the adapters and of
\* CarrierServiceMapper.
MappedCodes ==
    UNION { Keys(table) : table \in { UPS_SERVICE_TO_MODE, USPS_SERVICE_TO_MODE,
                                      FedEx_SERVICE_TO_MODE, DHL_SERVICE_TO_MODE,
                                      UPS_SERVICE_MAP, FEDEX_SERVICE_MAP,
                                      USPS_SERVICE_MAP, DHL_SERVICE_MAP } }

\* Other service codes: the empty string, mapped codes of each carrier as
\* issued, in another letter case and with a leading blank, the word
\* "default" and a code no table has.
UnmappedCodes ==
    { <<>>,
      <<"0", "1">>,
      <<"0", "3">>,
      <<"9", "3">>,
      <<"M", "2">>,
      <<"m", "2">>,
      <<"P", "R", "I", "O", "R", "I", "T", "Y">>,
      <<"p", "r", "i", "o", "r", "i", "t", "y">>,
      <<" ", "P", "R", "I", "O", "R", "I", "T", "Y">>,
      <<"G", "R", "O", "U", "N", "D">>,
      <<"G", "r", "o", "u", "n", "d">>,
      <<"F", "E", "D", "E", "X", "_", "G", "R", "O", "U", "N", "D">>,
      <<"f", "e", "d", "e", "x", "_", "g", "r", "o", "u", "n", "d">>,
      <<"d", "e", "f", "a", "u", "l", "t">>,
      <<"D", "E", "F", "A", "U", "L", "T">>,
      <<"X", "X">> }

\* Service codes to classify.
ClassifyCodes == MappedCodes \cup UnmappedCodes

\* An address in Toronto that carries coordinates.
AddrTorontoGps == Address("", "Toronto", "ON", "M5V", "CA", <<43>>, <<0 - 79>>)

\* Packages that differ in carrier and service code only: 1 kg from the campus
\* to Toronto, both addresses carrying coordinates; service_code None or text.
ClassifyPackages ==
    { PackageInfo(1, <<>>, <<AddrCampus>>, <<AddrTorontoGps>>, code, <<>>, carrier)
        : code \in ClassifyCodes, carrier \in ClassifyCarriers }

\* Packages calculated twice: 1 kg, UPS Next Day Air, between addresses to
\* geocode and one that carries coordinates.
RerunAddresses == { AddrWorcester, AddrToronto, AddrCampus }

RerunPackages ==
    { PackageInfo(1, dims, <<o>>, <<d>>, <<"0", "1">>, text, S_ups)
        : dims \in { <<>>, <<50, 40, 30>> },
          o \in RerunAddresses, d \in RerunAddresses,
          text \in { <<>>, <<"A", "i", "r">> } }

\* The query strings geocode_address sends for an address: the full string,
\* "city, country" and "postal code, country".
QueriesOf(address) ==
    { to_string(address) }
      \cup (IF address.city # "" /\ address.country # ""
            THEN { address.city \o ", " \o address.country } ELSE {})
      \cup (IF address.postal_code # "" /\ address.country # ""
            THEN { address.postal_code \o ", " \o address.country } ELSE {})

RerunQueries == UNION { QueriesOf(address) : address \in RerunAddresses }

SplitQueries == UNION { QueriesOf(address) : address \in SplitAddresses }

\* Carrier names under which a custom adapter class is registered.
RegisteredCarriers == { <<"L", "o", "c", "a", "l">> }

OptionalAddress(S) == { <<>> } \cup { <<a>> : a \in S }

PackageInfos ==
    { PackageInfo(w, dims, o, d, code, text, carrier)
        : w \in Weights, dims \in Dimensions,
          o \in OptionalAddress(PackageAddresses),
          d \in OptionalAddress(PackageAddresses),
          code \in ServiceCodes, text \in { <<>>, <<"A", "i", "r">> },
          carrier \in Carriers }

-----------------------------------------------------------------------------
(* The state machine.                                                      *)

EmptyCache == [k \in {} |-> NoCoords]

\* The log of a client that has made no lookup.
NoLookups == [q \in {} |-> [first |-> NoCoords, found |-> NoCoords]]

\* The reporting routes' reverse calculation (routes/emissions.py lines 45-50
\* and 138-140): weight_kg = (total * 1000) / (distance_km *
\* emission_factor) when factor, distance and total are non-zero and factor
\* and distance positive, else `otherwise`.  Python's / is a true division:
\* the quotient is held as the fraction num/den.  With emissions in the
\* engine's scaled units (weight units x km x thousandths of a factor) the
\* weight in weight units is total / (distance x factor in thousandths).
reverse_weight(total, distance_km, emission_factor, otherwise) ==
    IF emission_factor # 0 /\ distance_km # 0 /\ emission_factor > 0 /\ distance_km > 0
       /\ total # 0
    THEN << [num |-> total, den |-> distance_km * emission_factor] >>
    ELSE otherwise

\* The weight_kg of get_emissions_by_tracking: None without the calculation.
tracking_weight(total, distance_km, emission_factor) ==
    reverse_weight(total, distance_km, emission_factor, <<>>)

\* The weight_kg of get_calculation_details: 0 without the calculation.
details_weight(total, distance_km, emission_factor) ==
    reverse_weight(total, distance_km, emission_factor, << [num |-> 0, den |-> 1] >>)

\* No thread of a pool has been started.
NoThreads == [ calculators |-> <<>>, workers |-> <<>> ]

\* No calculate_package_emissions call in progress.
NoCall ==
    [ pc |-> "idle", carrier |-> <<>>, dimensions |-> <<>>, adapter |-> <<>>,
      token |-> <<>>, tracking_data |-> <<>>, package |-> <<>>, result |-> <<>> ]

\* A fresh EmissionsCalculator (its DistanceCalculator's cache is empty) and
\* the factory registry of the class body.
Init ==
    /\ cache = EmptyCache
    /\ adapters = BuiltinAdapters
    /\ package_info = <<>>
    /\ result = <<>>
    /\ raised = ""
    /\ distance_call = <<>>
    /\ geocode_call = <<>>
    /\ geocoder_calls = 0
    /\ cache_lookups = 0
    /\ geocoder = AnyGeocoder
    /\ first_run = <<>>
    /\ classified = <<>>
    /\ lookup_log = NoLookups
    /\ rows = <<>>
    /\ futures = <<>>
    /\ results = <<>>
    /\ errors = <<>>
    /\ batch_pc = "idle"
    /\ runs = 0
    /\ pipeline = NoCall
    /\ stage_log = <<>>
    /\ threads = NoThreads
    /\ report = <<>>
    /\ pc = "idle"

\* calculator.calculate_from_package_info(package) on a package of S.
CalculateOneOf(S) ==
    /\ pc = "idle"
    /\ \E package \in S :
         \E out \in calculate_from_package_info(package, cache, adapters) :
            /\ package_info' = <<package>>
            /\ result' = out.result
            /\ raised' = out.raised
            /\ cache' = out.cache
            /\ geocoder_calls' = out.geocoder_calls
            /\ cache_lookups' = out.cache_lookups
    /\ pc' = "returned"
    /\ UNCHANGED <<adapters, distance_call, geocode_call, lookup_log, classified,
                   geocoder, first_run, batch_vars, pipeline_vars, threads, report>>

\* calculator.calculate_from_package_info(package)
CalculateFromPackageInfo == CalculateOneOf(PackageInfos)

\* calculator.calculate_from_package_info(package) on the packages that differ
\* in carrier and service code only.
CalculateClassified == CalculateOneOf(ClassifyPackages)

\* CarrierFactory.create_adapter(carrier.lower()).get_transport_mode(service_code),
\* as lines 926-927 classify a package.
GetTransportMode ==
    /\ pc = "idle"
    /\ \E carrier \in ClassifyCarriers, service_code \in ClassifyCodes :
         LET adapter == create_adapter(adapters, StrLower(carrier))
         IN  classified' =
               << [ classifier |-> "adapter", carrier |-> carrier,
                    service_code |-> service_code,
                    mode |-> IF adapter = <<>> THEN ""
                             ELSE get_transport_mode(adapter[1], service_code),
                    raised |-> IF adapter = <<>> THEN "ValueError" ELSE "" ] >>
    /\ pc' = "returned"
    /\ UNCHANGED <<cache, adapters, package_info, result, raised, distance_call,
                   geocode_call, geocoder_calls, cache_lookups, lookup_log,
                   geocoder, first_run, batch_vars, pipeline_vars, threads, report>>

\* CarrierServiceMapper.get_service_type(carrier, service_code)
GetServiceType ==
    /\ pc = "idle"
    /\ \E carrier \in ClassifyCarriers, service_code \in ClassifyCodes :
         classified' =
           << [ classifier |-> "mapper", carrier |-> carrier,
                service_code |-> service_code,
                mode |-> get_service_type(carrier, service_code),
                raised |-> "" ] >>
    /\ pc' = "returned"
    /\ UNCHANGED <<cache, adapters, package_info, result, raised, distance_call,
                   geocode_call, geocoder_calls, cache_lookups, lookup_log,
                   geocoder, first_run, batch_vars, pipeline_vars, threads, report>>

\* calculator.distance_calculator.calculate_distance(origin, destination, service_type)
CalculateDistance ==
    /\ pc = "idle"
    /\ \E origin \in Addresses, destination \in Addresses, service_type \in ServiceTexts :
         \E out \in calculate_distance(origin, destination, service_type, cache) :
            /\ distance_call' = << [ origin |-> origin, destination |-> destination,
                                     service_type |-> service_type,
                                     origin_coords |-> out.origin_coords,
                                     dest_coords |-> out.dest_coords,
                                     distance |-> out.distance ] >>
            /\ cache' = out.cache
            /\ geocoder_calls' = out.geocoder_calls
            /\ cache_lookups' = out.cache_lookups
    /\ pc' = "returned"
    /\ UNCHANGED <<adapters, package_info, result, raised, geocode_call, lookup_log, classified,
                   geocoder, first_run, batch_vars, pipeline_vars, threads, report>>

\* calculator.distance_calculator.geocode_address(address)
GeocodeAddress ==
    /\ pc = "idle"
    /\ \E address \in Addresses :
         \E out \in geocode_address(address, cache) :
            /\ geocode_call' = << [ address |-> address, coords |-> out.coords,
                                    attempts |-> out.attempts,
                                    transient_errors |-> out.transient_errors,
                                    raised |-> out.raised ] >>
            /\ cache' = out.cache
            /\ geocoder_calls' = out.geocoder_calls
            /\ cache_lookups' = out.cache_lookups
    /\ pc' = "returned"
    /\ UNCHANGED <<adapters, package_info, result, raised, distance_call, lookup_log, classified,
                   geocoder, first_run, batch_vars, pipeline_vars, threads, report>>

\* The log after a geocode_address call on `address` with outcome `out`: for
\* each query string looked up (a call answered from the coordinates the
\* address carries looks nothing up), the outcome of the first lookup and the
\* first coordinates a lookup returned.
LogLookup(log, address, out) ==
    LET q == to_string(address)
    IN  IF out.cache_lookups = 0 THEN log
        ELSE IF q \notin DOMAIN log
        THEN [k \in (DOMAIN log) \cup {q} |->
                IF k = q THEN [first |-> out.coords, found |-> out.coords] ELSE log[k]]
        ELSE IF log[q].found = NoCoords
        THEN [log EXCEPT ![q].found = out.coords]
        ELSE log

\* geocode_address(address) called by a client that logs its lookups.
GeocodeAddressLogged ==
    /\ pc = "idle"
    /\ \E address \in LookupAddresses :
         \E out \in geocode_address(address, cache) :
            /\ geocode_call' = << [ address |-> address, coords |-> out.coords,
                                    attempts |-> out.attempts,
                                    transient_errors |-> out.transient_errors,
                                    raised |-> out.raised ] >>
            /\ cache' = out.cache
            /\ geocoder_calls' = out.geocoder_calls
            /\ cache_lookups' = out.cache_lookups
            /\ lookup_log' = LogLookup(lookup_log, address, out)
    /\ pc' = "returned"
    /\ UNCHANGED <<adapters, package_info, result, raised, distance_call, classified,
                   geocoder, first_run, batch_vars, pipeline_vars, threads, report>>

\* geocode_address(address) with the requests the geocoder received recorded.
GeocodeAddressTraced ==
    /\ pc = "idle"
    /\ \E address \in TracedAddresses :
         \E out \in geocode_address(address, cache) :
            /\ geocode_call' = << [ address |-> address, coords |-> out.coords,
                                    attempts |-> out.attempts,
                                    transient_errors |-> out.transient_errors,
                                    raised |-> out.raised,
                                    queries |-> out.queries ] >>
            /\ cache' = out.cache
            /\ geocoder_calls' = out.geocoder_calls
            /\ cache_lookups' = out.cache_lookups
    /\ pc' = "returned"
    /\ UNCHANGED <<adapters, package_info, result, raised, distance_call, lookup_log, classified,
                   geocoder, first_run, batch_vars, pipeline_vars, threads, report>>

\* DistanceCalculator(): the client goes on with a fresh instance (and log).
NewDistanceCalculator ==
    /\ pc = "idle"
    /\ cache # EmptyCache
    /\ cache' = EmptyCache
    /\ lookup_log' = NoLookups
    /\ UNCHANGED <<adapters, package_info, result, raised, distance_call, geocode_call,
                   geocoder_calls, cache_lookups, pc, classified,
                   geocoder, first_run, batch_vars, pipeline_vars, threads, report>>

\* The geocoding service is one that answers each query always the same way.
ChooseGeocoder ==
    /\ pc = "idle"
    /\ geocoder = AnyGeocoder
    /\ geocoder' \in [RerunQueries -> GeocoderAnswers]
    /\ UNCHANGED <<cache, adapters, package_info, result, raised, distance_call,
                   geocode_call, geocoder_calls, cache_lookups, first_run, classified,
                   lookup_log, pc, batch_vars, pipeline_vars, threads, report>>

\* The geocoding service answers each query always the same way, with a
\* location or with nothing, and never with an error.
ChooseErrorFreeGeocoder ==
    /\ pc = "idle"
    /\ geocoder = AnyGeocoder
    /\ geocoder' \in [SplitQueries -> { answer \in GeocoderAnswers : answer.kind # "error" }]
    /\ UNCHANGED <<cache, adapters, package_info, result, raised, distance_call,
                   geocode_call, geocoder_calls, cache_lookups, first_run, classified,
                   lookup_log, pc, batch_vars, pipeline_vars, threads, report>>

\* geocode_address(address) on the one DistanceCalculator, with that service.
GeocodeAddressSplit ==
    /\ pc = "idle"
    /\ geocoder # AnyGeocoder
    /\ \E address \in SplitAddresses :
         \E out \in geocode_address(address, cache) :
            /\ geocode_call' = << [ address |-> address, coords |-> out.coords,
                                    attempts |-> out.attempts,
                                    transient_errors |-> out.transient_errors,
                                    raised |-> out.raised,
                                    queries |-> out.queries ] >>
            /\ cache' = out.cache
            /\ geocoder_calls' = out.geocoder_calls
            /\ cache_lookups' = out.cache_lookups
    /\ pc' = "returned"
    /\ UNCHANGED <<adapters, package_info, result, raised, distance_call, lookup_log, classified,
                   geocoder, first_run, batch_vars, pipeline_vars, threads, report>>

\* calculator = EmissionsCalculator(); calculator.calculate_from_package_info(package)
\* (lines 1043-1044): the calculation on a calculator of its own, whose cache
\* is empty.
CalculateOnNewCalculator ==
    /\ pc = "idle"
    /\ geocoder # AnyGeocoder
    /\ \E package \in RerunPackages :
         \E out \in calculate_from_package_info(package, EmptyCache, adapters) :
            /\ package_info' = <<package>>
            /\ result' = out.result
            /\ raised' = out.raised
            /\ cache' = out.cache
            /\ geocoder_calls' = out.geocoder_calls
            /\ cache_lookups' = out.cache_lookups
    /\ pc' = "returned"
    /\ UNCHANGED <<adapters, distance_call, geocode_call, geocoder, first_run,
                   classified, lookup_log, batch_vars, pipeline_vars, threads, report>>

\* The caller keeps the outcome of the call and makes the same call again, on
\* another new calculator.
CalculateAgain ==
    /\ pc = "returned"
    /\ package_info # <<>>
    /\ first_run = <<>>
    /\ first_run' = << [ package_info |-> package_info[1], result |-> result,
                         raised |-> raised, geocoder_calls |-> geocoder_calls ] >>
    /\ \E out \in calculate_from_package_info(package_info[1], EmptyCache, adapters) :
            /\ result' = out.result
            /\ raised' = out.raised
            /\ cache' = out.cache
            /\ geocoder_calls' = out.geocoder_calls
            /\ cache_lookups' = out.cache_lookups
    /\ UNCHANGED <<adapters, package_info, distance_call, geocode_call, geocoder,
                   classified, lookup_log, pc, batch_vars, pipeline_vars, threads, report>>

\* CarrierFactory.register_adapter(carrier, adapter_class)
RegisterAdapter ==
    /\ pc = "idle"
    /\ \E carrier \in RegisteredCarriers, adapter_class \in CustomAdapterClasses :
         adapters' = register_adapter(adapters, carrier, adapter_class)
    /\ UNCHANGED <<cache, package_info, result, raised, distance_call, geocode_call,
                   geocoder_calls, cache_lookups, lookup_log, pc, classified,
                   geocoder, first_run, batch_vars, pipeline_vars, threads, report>>

\* The caller is done with the outcome of the last call; the calculator (its
\* cache) and the factory registry live on.
Return ==
    /\ pc = "returned"
    /\ pc' = "idle"
    /\ package_info' = <<>>
    /\ result' = <<>>
    /\ raised' = ""
    /\ distance_call' = <<>>
    /\ geocode_call' = <<>>
    /\ geocoder_calls' = 0
    /\ cache_lookups' = 0
    /\ classified' = <<>>
    /\ first_run' = <<>>
    /\ report' = <<>>
    /\ UNCHANGED <<cache, adapters, lookup_log, geocoder, batch_vars, pipeline_vars, threads>>

\* The engine: packages are calculated on one EmissionsCalculator.
Next == CalculateFromPackageInfo \/ RegisterAdapter \/ Return

Spec == Init /\ [][Next]_vars

\* The DistanceCalculator on its own.
NextDistance == CalculateDistance \/ GeocodeAddress \/ Return

SpecDistance == Init /\ [][NextDistance]_vars

\* A client geocoding addresses on DistanceCalculator instances.
NextGeocode == GeocodeAddressLogged \/ NewDistanceCalculator \/ Return

SpecGeocode == Init /\ [][NextGeocode]_vars

\* A client that geocodes addresses one after the other on one
\* DistanceCalculator, the requests to the geocoding service recorded.
NextTraced == GeocodeAddressTraced \/ Return

SpecTraced == Init /\ [][NextTraced]_vars

\* Calls one after the other on one DistanceCalculator, the geocoding service
\* deterministic and free of errors.
NextSplit == ChooseErrorFreeGeocoder \/ GeocodeAddressSplit \/ Return

SpecSplit == Init /\ [][NextSplit]_vars

\* The same package calculated twice, each time on a new calculator, with a
\* geocoding service that answers each query always the same way.
NextRerun == ChooseGeocoder \/ CalculateOnNewCalculator \/ CalculateAgain \/ Return

SpecRerun == Init /\ [][NextRerun]_vars

\* Classification of service codes by the adapters, by CarrierServiceMapper
\* and inside the engine.
NextClassify == GetTransportMode \/ GetServiceType \/ CalculateClassified \/ Return

SpecClassify == Init /\ [][NextClassify]_vars

-----------------------------------------------------------------------------
(* A batch run: BatchEmissionsProcessor.process_csv.                       *)

\* The carriers the processor was constructed with credentials for.
Credentials == { S_ups }

\* Rows of the input file.
RowSuccess ==
    [ tracking_number |-> <<"1", "Z", "1">>, carrier |-> <<"U", "P", "S">>,
      length_cm |-> <<"3", "0", ".", "5">>, outcome |-> "result" ]
RowNoApi ==
    [ tracking_number |-> <<"L", "S", "2">>,
      carrier |-> <<"l", "a", "s", "e", "r", "s", "h", "i", "p">>,
      length_cm |-> <<>>, outcome |-> "result" ]
RowNotConfigured ==
    [ tracking_number |-> <<"F", "X", "3">>, carrier |-> S_fedex,
      length_cm |-> <<>>, outcome |-> "result" ]
RowNoResult ==
    [ tracking_number |-> <<"1", "Z", "4">>, carrier |-> S_ups,
      length_cm |-> <<>>, outcome |-> "none" ]
RowRaises ==
    [ tracking_number |-> <<"1", "Z", "5", "_">>, carrier |-> <<" ", "u", "p", "s">>,
      length_cm |-> <<>>, outcome |-> "raises" ]
RowBadDimension ==
    [ tracking_number |-> <<"1", "Z", "6">>, carrier |-> S_ups,
      length_cm |-> <<"a", "b", "c">>, outcome |-> "result" ]

BatchRows ==
    { RowSuccess, RowNoApi, RowNotConfigured, RowNoResult, RowRaises,
      RowBadDimension }

\* The row of the DataFrame with index idx (iterrows counts from 0).
RowAt(idx) == rows[idx + 1]

Indexes == DOMAIN futures

\* process_csv up to the end of the submit loop: the file is read and one
\* future per row is submitted to the executor.
ProcessCsv ==
    /\ batch_pc = "idle"
    /\ \E n \in 1..MaxRows : \E df \in [1..n -> BatchRows] :
         /\ rows' = df
         /\ futures' = [ idx \in 0..(n - 1) |->
                           [ state |-> "pending", result |-> <<>>, raised |-> "" ] ]
    /\ batch_pc' = "collecting"
    /\ runs' = runs + 1
    /\ UNCHANGED <<results, errors>>
    /\ UNCHANGED <<cache, adapters, package_info, result, raised, distance_call,
                   geocode_call, geocoder_calls, cache_lookups, geocoder,
                   first_run, classified, lookup_log, pc, pipeline_vars,
                   threads, report>>

\* A thread of the pool runs _process_single_package_wrapper for one row.
Worker ==
    /\ batch_pc \in { "collecting", "aborting" }
    /\ \E idx \in Indexes :
         /\ futures[idx].state = "pending"
         /\ LET out == process_single_package_wrapper(Credentials, idx, RowAt(idx))
            IN  /\ errors' = errors \o out.errors
                /\ futures' = [ futures EXCEPT ![idx] =
                                  [ state |-> "done", result |-> out.result,
                                    raised |-> out.raised ] ]
    /\ UNCHANGED <<rows, results, batch_pc, runs>>
    /\ UNCHANGED <<cache, adapters, package_info, result, raised, distance_call,
                   geocode_call, geocoder_calls, cache_lookups, geocoder,
                   first_run, classified, lookup_log, pc, pipeline_vars,
                   threads, report>>

\* One iteration of `for future in as_completed(futures)`: future.result()
\* of a future that has completed returns its dict, which is appended to
\* self.results, or raises the exception of its call, which leaves the loop.
Collect ==
    /\ batch_pc = "collecting"
    /\ \E idx \in Indexes :
         /\ futures[idx].state = "done"
         /\ futures' = [ futures EXCEPT ![idx].state = "collected" ]
         /\ IF futures[idx].raised # ""
            THEN /\ batch_pc' = "aborting"
                 /\ UNCHANGED results
            ELSE /\ results' = Append(results, futures[idx].result[1])
                 /\ UNCHANGED batch_pc
    /\ UNCHANGED <<rows, errors, runs>>
    /\ UNCHANGED <<cache, adapters, package_info, result, raised, distance_call,
                   geocode_call, geocoder_calls, cache_lookups, geocoder,
                   first_run, classified, lookup_log, pc, pipeline_vars,
                   threads, report>>

\* The exception leaves `with ThreadPoolExecutor(...)`: the executor waits
\* for the calls still running, then process_csv raises to its caller.
Shutdown ==
    /\ batch_pc = "aborting"
    /\ \A idx \in Indexes : futures[idx].state # "pending"
    /\ batch_pc' = "raised"
    /\ UNCHANGED <<rows, futures, results, errors, runs>>
    /\ UNCHANGED <<cache, adapters, package_info, result, raised, distance_call,
                   geocode_call, geocoder_calls, cache_lookups, geocoder,
                   first_run, classified, lookup_log, pc, pipeline_vars,
                   threads, report>>

\* process_csv after the loop: the results are sorted, written and
\* summarised, and the call returns.
Finish ==
    /\ batch_pc = "collecting"
    /\ \A idx \in Indexes : futures[idx].state = "collected"
    /\ results' = sort_results(results)
    /\ batch_pc' = "done"
    /\ UNCHANGED <<rows, futures, errors, runs>>
    /\ UNCHANGED <<cache, adapters, package_info, result, raised, distance_call,
                   geocode_call, geocoder_calls, cache_lookups, geocoder,
                   first_run, classified, lookup_log, pc, pipeline_vars,
                   threads, report>>

\* One process_csv call on a new BatchEmissionsProcessor.
NextBatch == ProcessCsv \/ Worker \/ Collect \/ Shutdown \/ Finish

SpecBatch == Init /\ [][NextBatch]_vars

\* A further process_csv call on the same BatchEmissionsProcessor, once the
\* call before has returned or raised: self.results and self.errors, which
\* only __init__ assigns, still hold what the calls before appended.
ProcessCsvAgain ==
    /\ batch_pc \in { "done", "raised" }
    /\ runs < MaxRuns
    /\ \E n \in 1..MaxRows : \E df \in [1..n -> BatchRows] :
         /\ rows' = df
         /\ futures' = [ idx \in 0..(n - 1) |->
                           [ state |-> "pending", result |-> <<>>, raised |-> "" ] ]
    /\ batch_pc' = "collecting"
    /\ runs' = runs + 1
    /\ UNCHANGED <<results, errors>>
    /\ UNCHANGED <<cache, adapters, package_info, result, raised, distance_call,
                   geocode_call, geocoder_calls, cache_lookups, geocoder,
                   first_run, classified, lookup_log, pc, pipeline_vars,
                   threads, report>>

\* process_csv calls one after the other on one BatchEmissionsProcessor.
NextBatchRuns == NextBatch \/ ProcessCsvAgain

SpecBatchRuns == Init /\ [][NextBatchRuns]_vars

-----------------------------------------------------------------------------
(* calculate_package_emissions, stage by stage.                            *)

\* The carrier argument: the four of the factory, one of them in capitals,
\* and one without an adapter.
PipelineCarriers ==
    { S_ups, S_usps, S_fedex, <<"D", "H", "L">>, <<"a", "m", "a", "z", "o", "n">> }

\* The dimensions argument: None or (50, 40, 30).
PipelineDimensions == { <<>>, <<50, 40, 30>> }

\* Weight values of the payloads: 5, and a text that is not a number.
PayloadValues == { [is_number |-> TRUE, n |-> 5], [is_number |-> FALSE, n |-> 0] }

PayloadUnits == { <<"K", "G", "S">>, <<"K", "G">>, <<"l", "b">> }

PayloadWeights ==
    { <<>> } \cup { << [value |-> v, unit |-> u] >>
                      : v \in OptionalAddress(PayloadValues),
                        u \in OptionalAddress(PayloadUnits) }

PayloadOrigin ==
    [ city |-> "Worcester", state |-> "MA", postal_code |-> "", country |-> "" ]

PayloadDestination ==
    [ city |-> "", state |-> "", postal_code |-> "M5V", country |-> "CA" ]

PayloadService ==
    [ code |-> <<"p", "r", "i", "o", "r", "i", "t", "y", " ", "m", "a", "i", "l">>,
      description |-> <<"A", "i", "r">> ]

\* The documents get_tracking_data may return.
Payloads ==
    { [ structure |-> TRUE, weight |-> w, origin |-> o, destination |-> d,
        service |-> s ]
        : w \in PayloadWeights, o \in { <<>>, <<PayloadOrigin>> },
          d \in { <<>>, <<PayloadDestination>> }, s \in { <<>>, <<PayloadService>> } }
    \cup { [ structure |-> FALSE, weight |-> <<>>, origin |-> <<>>,
             destination |-> <<>>, service |-> <<>> ] }

\* The PackageInfo of a parser as the engine model holds it: the weight in
\* whole kg (a weight in mg is beyond the range of the engine's products).
EnginePackage(package) ==
    [ package EXCEPT !.weight_kg = @ \div MilligramsPerKg ]

\* The call and its banner (lines 977-1010).
CalculatePackageEmissions ==
    /\ pipeline.pc = "idle"
    /\ \E carrier \in PipelineCarriers, dimensions \in PipelineDimensions :
         pipeline' = [ NoCall EXCEPT !.pc = "create_adapter", !.carrier = carrier,
                                     !.dimensions = dimensions ]
    /\ stage_log' = <<>>
    /\ UNCHANGED <<cache, adapters, package_info, result, raised, distance_call,
                   geocode_call, geocoder_calls, cache_lookups, geocoder,
                   first_run, classified, lookup_log, pc, batch_vars, threads, report>>

\* A stage of the call starts: `stage` is appended to the log, and the call
\* goes on with the locals `next`.
Stage(stage, next) ==
    /\ pipeline.pc = stage
    /\ stage_log' = Append(stage_log, stage)
    /\ pipeline' = next
    /\ UNCHANGED <<cache, adapters, package_info, result, raised, distance_call,
                   geocode_call, geocoder_calls, cache_lookups, geocoder,
                   first_run, classified, lookup_log, pc, batch_vars, threads, report>>

\* `return None`
ReturnNone == [ pipeline EXCEPT !.pc = "returned", !.result = <<>> ]

\* adapter = CarrierFactory.create_adapter(carrier, **adapter_kwargs), and
\* the return of None on ValueError (lines 1012-1016).
CreateAdapter ==
    /\ pipeline.pc = "create_adapter"
    /\ LET adapter == create_adapter(adapters, pipeline.carrier)
       IN  Stage("create_adapter",
                 IF adapter = <<>> THEN ReturnNone
                 ELSE [ pipeline EXCEPT !.pc = "authenticate", !.adapter = adapter ])

\* The call going on to the tracking request whatever authenticate returned.
after_authenticate_unchecked(token) ==
    "get_tracking_data"

\* `if not token: return None` (lines 1021-1022): where the call goes after
\* adapter.authenticate.
after_authenticate(token) ==
    IF token = <<>> THEN "returned" ELSE "get_tracking_data"

\* token = adapter.authenticate(credentials): a token, or None when the
\* request fails (lines 1018-1022).
Authenticate ==
    /\ pipeline.pc = "authenticate"
    /\ \E token \in { <<>>, <<"token">> } :
          Stage("authenticate",
                [ pipeline EXCEPT !.pc = after_authenticate(token), !.token = token,
                                  !.result = <<>> ])

\* tracking_data = adapter.get_tracking_data(token, tracking_number): a
\* document, or None when the request fails (lines 1024-1028).
GetTrackingData ==
    /\ pipeline.pc = "get_tracking_data"
    /\ \E tracking_data \in OptionalAddress(Payloads) :
          Stage("get_tracking_data",
                IF tracking_data = <<>> THEN ReturnNone
                ELSE [ pipeline EXCEPT !.pc = "parse_tracking_data",
                                       !.tracking_data = tracking_data ])

\* package_info = adapter.parse_tracking_data(tracking_data) (lines
\* 1030-1034), and the test `if dimensions:` that follows.
ParseTrackingData ==
    /\ pipeline.pc = "parse_tracking_data"
    /\ LET parsed == parse_tracking_data(pipeline.adapter[1], pipeline.tracking_data[1])
       IN  Stage("parse_tracking_data",
                 IF parsed = <<>> THEN ReturnNone
                 ELSE [ pipeline EXCEPT
                          !.pc = IF pipeline.dimensions # <<>> THEN "add_dimensions"
                                 ELSE "calculate",
                          !.package = parsed ])

\* package_info.dimensions = dimensions (lines 1036-1039)
AddDimensions ==
    /\ pipeline.pc = "add_dimensions"
    /\ Stage("add_dimensions",
             [ pipeline EXCEPT !.pc = "calculate",
                               !.package[1].dimensions = pipeline.dimensions ])

\* calculator = EmissionsCalculator(); result =
\* calculator.calculate_from_package_info(package_info), the report and the
\* return (lines 1041-1083).
CalculateEmissions ==
    /\ pipeline.pc = "calculate"
    /\ \E out \in calculate_from_package_info(EnginePackage(pipeline.package[1]),
                                              EmptyCache, adapters) :
          Stage("calculate",
                IF out.raised # ""
                THEN [ pipeline EXCEPT !.pc = "raised", !.result = <<>> ]
                ELSE [ pipeline EXCEPT !.pc = "returned", !.result = out.result ])

\* One calculate_package_emissions call.
NextPipeline ==
    \/ CalculatePackageEmissions
    \/ CreateAdapter
    \/ Authenticate
    \/ GetTrackingData
    \/ ParseTrackingData
    \/ AddDimensions
    \/ CalculateEmissions

SpecPipeline == Init /\ [][NextPipeline]_vars

-----------------------------------------------------------------------------
(* Engine invocations of a batch running concurrently: the threads of the  *)
(* pool each run calculate_package_emissions, whose calculation stage      *)
(* creates an EmissionsCalculator and geocodes the origin and then the     *)
(* destination.  A step of a thread is one statement of geocode_address    *)
(* that reads or writes a cache, or one series of geocoder requests.       *)
(* threads.calculators is the heap of DistanceCalculator caches, in the    *)
(* order of their creation; threads.workers holds, for each thread, its    *)
(* position, the calculator it uses, its two addresses, which of them it   *)
(* is geocoding, the location about to be inserted, what its last cache    *)
(* read returned and the addresses it has asked the geocoder for.          *)

\* The origin and destination of the packages of the threads.
ThreadAddresses == { <<AddrWorcester, AddrToronto>>, <<AddrWorcester, AddrWorcester>> }

Workers == DOMAIN threads.workers

\* One calculator used by every invocation: the first one created.
shared_calculator(heap) ==
    IF heap = <<>> THEN [ id |-> 1, heap |-> <<EmptyCache>> ]
    ELSE [ id |-> 1, heap |-> heap ]

\* calculator = EmissionsCalculator() (line 1043): a new DistanceCalculator
\* with an empty cache.
new_calculator(heap) == [ id |-> Len(heap) + 1, heap |-> Append(heap, EmptyCache) ]

\* The address the thread is geocoding.
CurrentAddress(w) == w.addresses[w.which]

\* The thread's state once geocode_address has returned for its current
\* address: the next address, or the end of the distance estimate.
NextAddress(w) ==
    IF w.which = 1 THEN [ w EXCEPT !.pc = "lookup", !.which = 2, !.location = NoCoords ]
    ELSE [ w EXCEPT !.pc = "done", !.location = NoCoords ]

\* The pool starts its threads.
StartThreads ==
    /\ threads = NoThreads
    /\ \E n \in 1..MaxThreads : \E packages \in [1..n -> ThreadAddresses] :
         threads' = [ calculators |-> <<>>,
                      workers |-> [ t \in 1..n |->
                                      [ pc |-> "new", calculator |-> 0,
                                        addresses |-> packages[t], which |-> 1,
                                        location |-> NoCoords, seen |-> <<>>,
                                        asked |-> {} ] ] ]
    /\ UNCHANGED <<cache, adapters, package_info, result, raised, distance_call,
                   geocode_call, geocoder_calls, cache_lookups, geocoder,
                   first_run, classified, lookup_log, pc, batch_vars,
                   pipeline_vars, report>>

\* A thread creates its EmissionsCalculator.
ThreadNewCalculator ==
    /\ \E t \in Workers :
         /\ threads.workers[t].pc = "new"
         /\ LET new == new_calculator(threads.calculators)
            IN  threads' = [ calculators |-> new.heap,
                             workers |-> [ threads.workers EXCEPT
                                             ![t].pc = "lookup",
                                             ![t].calculator = new.id ] ]
    /\ UNCHANGED <<cache, adapters, package_info, result, raised, distance_call,
                   geocode_call, geocoder_calls, cache_lookups, geocoder,
                   first_run, classified, lookup_log, pc, batch_vars,
                   pipeline_vars, report>>

\* geocode_address up to the cache test (lines 155-160): the coordinates the
\* address carries, or the entry of the cache, or on to the geocoder.
ThreadCacheTest ==
    /\ \E t \in Workers :
         LET w == threads.workers[t]
             address == CurrentAddress(w)
             c == threads.calculators[w.calculator]
         IN  /\ w.pc = "lookup"
             /\ threads' = [ threads EXCEPT !.workers[t] =
                   IF Truthy(address.latitude) /\ Truthy(address.longitude)
                   THEN NextAddress(w)
                   ELSE IF to_string(address) \in DOMAIN c
                   THEN NextAddress([ w EXCEPT !.seen = << c[to_string(address)] >> ])
                   ELSE [ w EXCEPT !.pc = "geocode" ] ]
    /\ UNCHANGED <<cache, adapters, package_info, result, raised, distance_call,
                   geocode_call, geocoder_calls, cache_lookups, geocoder,
                   first_run, classified, lookup_log, pc, batch_vars,
                   pipeline_vars, report>>

\* The retry loop up to the location it finds, or to its giving up.
ThreadGeocode ==
    /\ \E t \in Workers :
         LET w == threads.workers[t]
             address == CurrentAddress(w)
             c == threads.calculators[w.calculator]
         IN  /\ w.pc = "geocode"
             /\ \E coords \in { out.coords : out \in GeocodeAttempts(address, c, 0, <<>>) } :
                  threads' = [ threads EXCEPT !.workers[t] =
                     IF coords = NoCoords
                     THEN NextAddress([ w EXCEPT !.asked = @ \cup { to_string(address) } ])
                     ELSE [ w EXCEPT !.pc = "insert", !.location = coords,
                                     !.asked = @ \cup { to_string(address) } ] ]
    /\ UNCHANGED <<cache, adapters, package_info, result, raised, distance_call,
                   geocode_call, geocoder_calls, cache_lookups, geocoder,
                   first_run, classified, lookup_log, pc, batch_vars,
                   pipeline_vars, report>>

\* self.cache[addr_string] = coords, and the return of the coordinates.
ThreadCacheInsert ==
    /\ \E t \in Workers :
         LET w == threads.workers[t]
         IN  /\ w.pc = "insert"
             /\ threads' = [ threads EXCEPT
                   !.calculators[w.calculator] =
                       CachePut(@, to_string(CurrentAddress(w)), w.location),
                   !.workers[t] = NextAddress(w) ]
    /\ UNCHANGED <<cache, adapters, package_info, result, raised, distance_call,
                   geocode_call, geocoder_calls, cache_lookups, geocoder,
                   first_run, classified, lookup_log, pc, batch_vars,
                   pipeline_vars, report>>

NextThreads ==
    \/ StartThreads
    \/ ThreadNewCalculator
    \/ ThreadCacheTest
    \/ ThreadGeocode
    \/ ThreadCacheInsert

SpecThreads == Init /\ [][NextThreads]_vars

-----------------------------------------------------------------------------
(* The reporting routes (api/routes/emissions.py) on a stored result.      *)

\* Packages whose results the routes report on: from the campus to Toronto
\* (coordinates carried), to the campus itself, and to an address to geocode;
\* by UPS Ground and by a carrier a caller may have registered.
ReportPackages ==
    { PackageInfo(w, dims, <<AddrCampus>>, <<d>>, <<"0", "3">>, <<>>, carrier)
        : w \in Weights, dims \in { <<>>, <<50, 40, 30>> },
          d \in { AddrTorontoGps, AddrCampus, AddrWorcester },
          carrier \in { S_ups } \cup RegisteredCarriers }

\* calculator.calculate_from_package_info(package) for a package to report on.
CalculateForReport == CalculateOneOf(ReportPackages)

\* GET /emissions/tracking/{tracking_number} on the row of the last result:
\* its total emissions, main-transit distance and main-leg factor.
GetEmissionsByTracking ==
    /\ pc = "returned"
    /\ result # <<>>
    /\ report = <<>>
    /\ report' = << [ route |-> "tracking",
                      weight_kg |-> tracking_weight(result[1].total_emissions_kg,
                                                    result[1].distance_km,
                                                    result[1].emission_factor) ] >>
    /\ UNCHANGED <<cache, adapters, package_info, result, raised, distance_call,
                   geocode_call, geocoder_calls, cache_lookups, geocoder, first_run,
                   classified, lookup_log, pc, batch_vars, pipeline_vars, threads>>

\* GET /emissions/package/{package_id}/calculation-details on the same row.
GetCalculationDetails ==
    /\ pc = "returned"
    /\ result # <<>>
    /\ report = <<>>
    /\ report' = << [ route |-> "calculation-details",
                      weight_kg |-> details_weight(result[1].total_emissions_kg,
                                                   result[1].distance_km,
                                                   result[1].emission_factor) ] >>
    /\ UNCHANGED <<cache, adapters, package_info, result, raised, distance_call,
                   geocode_call, geocoder_calls, cache_lookups, geocoder, first_run,
                   classified, lookup_log, pc, batch_vars, pipeline_vars, threads>>

NextReport ==
    \/ CalculateForReport
    \/ RegisterAdapter
    \/ GetEmissionsByTracking
    \/ GetCalculationDetails
    \/ Return

SpecReport == Init /\ [][NextReport]_vars

-----------------------------------------------------------------------------
(* Properties.                                                             *)

\* The EmissionResult of the last calculate_from_package_info call, when it
\* returned one.
HasResult == result # <<>>
TheResult == result[1]
ThePackage == package_info[1]

\* C1: in every EmissionResult returned by calculate_from_package_info, each
\* segment of the breakdown has emissions_kg = (weight_kg/1000) * distance_km
\* * emission_factor of its own recorded fields, and its emission_factor is
\* the factor-table entry of its mode.
C1_SegmentFormula ==
    HasResult =>
        \A i \in DOMAIN TheResult.breakdown :
            LET seg == TheResult.breakdown[i]
            IN  /\ seg.mode \in DOMAIN EMISSION_FACTORS
                /\ seg.emission_factor = EMISSION_FACTORS[seg.mode]
                /\ seg.emissions_kg = seg.weight_kg * seg.distance_km * seg.emission_factor

\* A result of two segments with positive emissions on an air leg, computed
\* from a dimensional weight.
C1_Witness ==
    /\ HasResult
    /\ Len(TheResult.breakdown) = 2
    /\ TheResult.is_dimensional
    /\ TheResult.breakdown[1].mode = "air_shorthaul"
    /\ TheResult.breakdown[1].emissions_kg > 0
    /\ TheResult.breakdown[2].emissions_kg > 0

RECURSIVE SumEmissions(_)
SumEmissions(segments) ==
    IF segments = <<>> THEN 0
    ELSE Head(segments).emissions_kg + SumEmissions(Tail(segments))

\* C2: total_emissions_kg of every EmissionResult is the sum of emissions_kg
\* over the segments of its breakdown.
C2_TotalIsSum ==
    HasResult => TheResult.total_emissions_kg = SumEmissions(TheResult.breakdown)

\* A result whose last-mile segment contributes to the total.
C2_Witness ==
    /\ HasResult
    /\ Len(TheResult.breakdown) = 2
    /\ TheResult.breakdown[2].emissions_kg > 0
    /\ TheResult.total_emissions_kg > TheResult.breakdown[1].emissions_kg

\* The mode the classifier gives the package of the last call.
ClassifiedMode ==
    get_transport_mode(create_adapter(adapters, StrLower(ThePackage.carrier))[1],
                       StrOr(ThePackage.service_code, <<>>))

\* C3: the breakdown of every EmissionResult starts with the single 'Main
\* Transit' segment, of the classified mode; it has exactly one segment when
\* that mode is last_mile and exactly two, 'Last Mile Delivery' second, for
\* every other mode.
C3_SegmentCount ==
    HasResult =>
        LET b == TheResult.breakdown
        IN  /\ Len(b) \in {1, 2}
            /\ b[1].segment = "Main Transit"
            /\ b[1].mode = ClassifiedMode
            /\ TheResult.transport_mode = ClassifiedMode
            /\ \A i \in 2..Len(b) : b[i].segment # "Main Transit"
            /\ ClassifiedMode = "last_mile" => Len(b) = 1
            /\ ClassifiedMode # "last_mile" =>
                  Len(b) = 2 /\ b[2].segment = "Last Mile Delivery"

\* A result for a package whose carrier classifies as last_mile: one segment.
C3_Witness ==
    /\ HasResult
    /\ ClassifiedMode = "last_mile"
    /\ Len(TheResult.breakdown) = 1

\* The package of the call lacks its origin or its destination.
MissingAddress(package) == package.origin = <<>> \/ package.destination = <<>>

\* C4: a calculate_from_package_info call for a package without origin or
\* without destination returns None (no EmissionResult, no exception), makes
\* no geocoder request and no cache lookup, and leaves the cache as it was.
C4_MissingAddress ==
    [][ (pc = "idle" /\ package_info' # <<>> /\ MissingAddress(package_info'[1]))
        => /\ result' = <<>>
           /\ raised' = ""
           /\ geocoder_calls' = 0
           /\ cache_lookups' = 0
           /\ cache' = cache ]_vars

\* A call without origin, with a negative weight, dimensions and an
\* unrecognized carrier, on a calculator whose cache holds an entry.
C4_Witness ==
    /\ package_info # <<>>
    /\ ThePackage.origin = <<>>
    /\ ThePackage.destination # <<>>
    /\ ThePackage.weight_kg < 0
    /\ ThePackage.dimensions # <<>>
    /\ create_adapter(adapters, StrLower(ThePackage.carrier)) = <<>>
    /\ cache # EmptyCache
    /\ result = <<>>

\* The volumetric weight L*W*H/5000 of dimensions, in weight units.
VolumetricWeight(dimensions) ==
    (dimensions[1] * dimensions[2] * dimensions[3] * WeightUnitsPerKg) \div 5000

Max(a, b) == IF a >= b THEN a ELSE b

\* C5: for a declared weight w >= 0, the weight used is max(w, v) and
\* is_dimensional is true exactly when v > w, v = L*W*H/5000, when dimensions
\* are given; the weight used is w and is_dimensional is false when not.
C5_WeightResolution ==
    (HasResult /\ ThePackage.weight_kg >= 0) =>
        LET w == ThePackage.weight_kg * WeightUnitsPerKg
            v == VolumetricWeight(ThePackage.dimensions)
        IN  IF ThePackage.dimensions # <<>>
            THEN /\ TheResult.weight_used_kg = Max(w, v)
                 /\ TheResult.is_dimensional <=> (v > w)
            ELSE /\ TheResult.weight_used_kg = w
                 /\ ~TheResult.is_dimensional

\* The example of the claim: 2 kg declared, 50 x 40 x 30 cm, 12 kg used.
C5_Witness ==
    /\ HasResult
    /\ ThePackage.weight_kg = 2
    /\ ThePackage.dimensions = <<50, 40, 30>>
    /\ TheResult.weight_used_kg = 12 * WeightUnitsPerKg
    /\ TheResult.is_dimensional


\* The package carries a negative declared weight, or dimensions of which one
\* is zero or negative.
InvalidData(package) ==
    \/ package.weight_kg < 0
    \/ /\ package.dimensions # <<>>
       /\ \E i \in 1..3 : package.dimensions[i] <= 0

\* C6: a package with a negative declared weight, or with dimensions of which
\* one is zero or negative, ends in a data error: no EmissionResult is
\* produced for it.
C6_InvalidDataRejected ==
    (package_info # <<>> /\ InvalidData(ThePackage)) => result = <<>>

\* The last calculate_distance call.
TheDistanceCall == distance_call[1]

\* The service texts of the model that contain 'air' in some letter case.
AirServiceTexts == { <<"2", "n", "d", " ", "D", "a", "y", " ", "A", "I", "R">> }

\* C7: when origin and destination do not both resolve to coordinates,
\* calculate_distance returns 5000 if both addresses carry a non-empty country
\* and the countries differ; otherwise 1500 if the service text contains 'air'
\* in any letter case; otherwise 1200.
C7_DefaultTiers ==
    (distance_call # <<>>
       /\ (TheDistanceCall.origin_coords = NoCoords \/ TheDistanceCall.dest_coords = NoCoords))
    => TheDistanceCall.distance =
          IF /\ TheDistanceCall.origin.country # ""
             /\ TheDistanceCall.destination.country # ""
             /\ TheDistanceCall.origin.country # TheDistanceCall.destination.country
          THEN 5000
          ELSE IF TheDistanceCall.service_type \in AirServiceTexts
          THEN 1500
          ELSE 1200

\* Neither address resolved, the countries differ and the service is an air
\* service: the country tier decides.
C7_Witness ==
    /\ distance_call # <<>>
    /\ TheDistanceCall.origin_coords = NoCoords
    /\ TheDistanceCall.dest_coords = NoCoords
    /\ TheDistanceCall.origin.country = "US"
    /\ TheDistanceCall.destination.country = "CA"
    /\ TheDistanceCall.service_type \in AirServiceTexts
    /\ TheDistanceCall.distance = 5000

\* C8: the distance calculate_distance returns, and so distance_km of every
\* EmissionResult and of its main-transit segment, is strictly positive.
C8_DistancePositive ==
    /\ distance_call # <<>> => TheDistanceCall.distance > 0
    /\ HasResult => /\ TheResult.distance_km > 0
                    /\ TheResult.breakdown[1].distance_km > 0

\* C9: when origin and destination both resolve to a coordinate pair, the
\* distance is the great-circle distance between the two pairs.
C9_ResolvedUsesGeodesic ==
    (distance_call # <<>>
       /\ TheDistanceCall.origin_coords # NoCoords
       /\ TheDistanceCall.dest_coords # NoCoords)
    => TheDistanceCall.distance =
          geodesic(TheDistanceCall.origin_coords, TheDistanceCall.dest_coords)

\* The last geocode_address call.
TheGeocodeCall == geocode_call[1]

\* C10: for an Address that carries a latitude and a longitude, geocode_address
\* returns those coordinates, without a cache lookup and without a geocoder
\* request.
C10_CarriedCoordinates ==
    (geocode_call # <<>>
       /\ TheGeocodeCall.address.latitude # <<>>
       /\ TheGeocodeCall.address.longitude # <<>>)
    => /\ TheGeocodeCall.coords = << TheGeocodeCall.address.latitude[1],
                                     TheGeocodeCall.address.longitude[1] >>
       /\ geocoder_calls = 0
       /\ cache_lookups = 0

-----------------------------------------------------------------------------
(* Claims on the geocode cache and the retries (specification SpecGeocode). *)

\* The next state is the return of a geocode_address call.
GeocodeReturns == pc = "idle" /\ geocode_call' # <<>>

CalledAddress == geocode_call'[1].address

CalledQuery == to_string(CalledAddress)

\* C11 as stated: once a lookup for query string q has been made on a
\* DistanceCalculator, every later geocode_address call for an address with
\* the same query string makes no geocoder request and returns the outcome of
\* the first lookup.
C11_LookupOnce ==
    [][ (GeocodeReturns /\ CalledQuery \in DOMAIN lookup_log)
        => /\ geocoder_calls' = 0
           /\ geocode_call'[1].coords = lookup_log[CalledQuery].first ]_vars

\* C11, amended: once a lookup for query string q has returned coordinates,
\* every later geocode_address call for an address with the same query string
\* that carries no coordinates of its own makes no geocoder request and
\* returns those coordinates; the cache of an instance holds only query
\* strings looked up on that instance, so a fresh instance starts empty.
C11_CachedLookup ==
    [][ /\ ( /\ GeocodeReturns
             /\ CalledQuery \in DOMAIN lookup_log
             /\ lookup_log[CalledQuery].found # NoCoords
             /\ ~(Truthy(CalledAddress.latitude) /\ Truthy(CalledAddress.longitude)) )
           => /\ geocoder_calls' = 0
              /\ geocode_call'[1].coords = lookup_log[CalledQuery].found
        /\ DOMAIN cache' \subseteq DOMAIN lookup_log' ]_vars

\* A call answered from the cache: the text-only campus address looked up a
\* second time.
C11_Witness ==
    /\ pc = "returned"
    /\ geocode_call # <<>>
    /\ geocode_call[1].address = AddrCampusText
    /\ cache_lookups = 1
    /\ geocoder_calls = 0
    /\ geocode_call[1].coords = lookup_log[to_string(AddrCampusText)].found

\* The state holds the return of a geocode_address call that asked the geocoder.
GeocoderAsked == pc = "returned" /\ geocode_call # <<>> /\ geocode_call[1].attempts > 0

\* C12: a geocode_address call ends after at most max_retries attempts of at
\* most three geocoder requests each; every attempt but the last one ended in
\* a transient geocoder error (an error restarts the attempt), and when the
\* last one ended in a transient error too, the call made max_retries
\* attempts and returned (None, None) without raising.
C12_BoundedRetries ==
    GeocoderAsked =>
        LET call == geocode_call[1]
        IN  /\ call.attempts <= max_retries
            /\ call.raised = ""
            /\ call.attempts <= geocoder_calls
            /\ geocoder_calls <= 3 * call.attempts
            /\ call.transient_errors \in { call.attempts - 1, call.attempts }
            /\ call.transient_errors = call.attempts
                 => (call.attempts = max_retries /\ call.coords = NoCoords)

\* Every attempt ended in a transient error, not all of them at the first
\* query of the attempt.
C12_Witness ==
    /\ GeocoderAsked
    /\ geocode_call[1].transient_errors = max_retries
    /\ geocoder_calls > max_retries
    /\ geocode_call[1].coords = NoCoords
    /\ geocode_call[1].raised = ""

-----------------------------------------------------------------------------
(* Claims on the engine's failure modes (specification Spec).              *)

\* The carriers the factory knows from its class body, in any letter case.
RecognizedCarrier(carrier) == StrLower(carrier) \in { S_ups, S_usps, S_fedex, S_dhl }

\* After a call, an address is unresolved when it carries no usable
\* coordinates and the cache has none for its query string: its geocoding
\* found nothing or ran out of retries.
Unresolved(address) ==
    /\ ~(Truthy(address.latitude) /\ Truthy(address.longitude))
    /\ to_string(address) \notin DOMAIN cache

\* The call was made on a package with both addresses.
CalculatedWithAddresses ==
    pc = "returned" /\ package_info # <<>> /\ ~MissingAddress(ThePackage)

\* C13: a package with origin, destination and a recognized carrier gets an
\* EmissionResult and no exception whatever the geocoder answered; when an
\* address stayed unresolved the distance of the result is the policy default.
C13_GeocodingNeverFails ==
    (CalculatedWithAddresses /\ RecognizedCarrier(ThePackage.carrier)) =>
        /\ HasResult
        /\ raised = ""
        /\ (Unresolved(ThePackage.origin[1]) \/ Unresolved(ThePackage.destination[1]))
             => TheResult.distance_km =
                  default_distance(ThePackage.origin[1], ThePackage.destination[1],
                                   StrOr(ThePackage.service_description,
                                         <<"g", "r", "o", "u", "n", "d">>))

\* A UPS package whose origin the geocoder was asked for and did not resolve.
C13_Witness ==
    /\ CalculatedWithAddresses
    /\ ThePackage.carrier = S_ups
    /\ ThePackage.origin[1] = AddrWorcester
    /\ Unresolved(AddrWorcester)
    /\ geocoder_calls > 0
    /\ HasResult
    /\ TheResult.distance_km = DEFAULT_DISTANCES.domestic_ground

-----------------------------------------------------------------------------
(* Claims on classification (specification SpecClassify).                  *)

TheClassification == classified[1]

\* The state holds the return of a classification by `classifier` for one of
\* the four carriers of the factory.
Classified(classifier) ==
    /\ pc = "returned"
    /\ classified # <<>>
    /\ TheClassification.classifier = classifier
    /\ RecognizedCarrier(TheClassification.carrier)

\* The engine classified a package of one of the four carriers.
EngineClassified ==
    CalculatedWithAddresses /\ RecognizedCarrier(ThePackage.carrier)

\* SERVICE_TO_MODE of the adapter of a recognized carrier.
AdapterTable(carrier) ==
    CASE StrLower(carrier) = S_ups   -> UPS_SERVICE_TO_MODE
      [] StrLower(carrier) = S_usps  -> USPS_SERVICE_TO_MODE
      [] StrLower(carrier) = S_fedex -> FedEx_SERVICE_TO_MODE
      [] StrLower(carrier) = S_dhl   -> DHL_SERVICE_TO_MODE

\* The table of CarrierServiceMapper for a recognized carrier.
MapperTable(carrier) ==
    CASE StrLower(carrier) = S_ups   -> UPS_SERVICE_MAP
      [] StrLower(carrier) = S_usps  -> USPS_SERVICE_MAP
      [] StrLower(carrier) = S_fedex -> FEDEX_SERVICE_MAP
      [] StrLower(carrier) = S_dhl   -> DHL_SERVICE_MAP

\* The `default` entry of the adapter table of a recognized carrier.
AdapterDefault(carrier) == DictGet(AdapterTable(carrier), S_default, "")

\* The text an adapter looks up: the code as issued for UPS, upper-cased for
\* the other carriers.
AdapterKey(carrier, code) == IF StrLower(carrier) = S_ups THEN code ELSE StrUpper(code)

\* The text CarrierServiceMapper looks up: the code as issued for UPS,
\* upper-cased and stripped of surrounding whitespace for the other carriers.
MapperKey(carrier, code) ==
    IF StrLower(carrier) = S_ups THEN code ELSE StrStrip(StrUpper(code))

\* C14 as stated: for a recognized carrier, a service code that is not a key
\* of the carrier's mapping (the empty string of a package without service
\* code included) is classified as the carrier's default mode, without an
\* exception, and the calculation returns a result with that mode.
C14_NotAKeyToDefault ==
    /\ (Classified("adapter")
         /\ TheClassification.service_code \notin Keys(AdapterTable(TheClassification.carrier)))
        => /\ TheClassification.raised = ""
           /\ TheClassification.mode = AdapterDefault(TheClassification.carrier)
    /\ (Classified("mapper")
         /\ TheClassification.service_code \notin Keys(MapperTable(TheClassification.carrier)))
        => /\ TheClassification.raised = ""
           /\ TheClassification.mode = "ground_standard"
    /\ (EngineClassified
         /\ ThePackage.service_code \notin Keys(AdapterTable(ThePackage.carrier)))
        => /\ raised = ""
           /\ HasResult
           /\ TheResult.transport_mode = AdapterDefault(ThePackage.carrier)

\* C14, amended: for a recognized carrier, a service code that matches no key
\* of the carrier's mapping under the classifier's matching rule (UPS: the
\* code as issued; the other carriers: the upper-cased code, which
\* CarrierServiceMapper also strips of surrounding whitespace) is classified
\* as the carrier's default mode (ground_standard in CarrierServiceMapper),
\* without an exception, and the calculation returns a result with that mode.
C14_UnmatchedToDefault ==
    /\ (Classified("adapter")
         /\ AdapterKey(TheClassification.carrier, TheClassification.service_code)
              \notin Keys(AdapterTable(TheClassification.carrier)))
        => /\ TheClassification.raised = ""
           /\ TheClassification.mode = AdapterDefault(TheClassification.carrier)
    /\ (Classified("mapper")
         /\ MapperKey(TheClassification.carrier, TheClassification.service_code)
              \notin Keys(MapperTable(TheClassification.carrier)))
        => /\ TheClassification.raised = ""
           /\ TheClassification.mode = "ground_standard"
    /\ (EngineClassified
         /\ AdapterKey(ThePackage.carrier, ThePackage.service_code)
              \notin Keys(AdapterTable(ThePackage.carrier)))
        => /\ raised = ""
           /\ HasResult
           /\ TheResult.transport_mode = AdapterDefault(ThePackage.carrier)

\* A DHL package without a service code: the engine classified it as DHL's
\* own default, air_longhaul.
C14_Witness ==
    /\ EngineClassified
    /\ ThePackage.carrier = S_dhl
    /\ ThePackage.service_code = <<>>
    /\ HasResult
    /\ TheResult.transport_mode = "air_longhaul"

\* C15: for a carrier identifier that is not one of the recognized carriers
\* (the PackageInfo default 'unknown' included) the mode lookup does not fail
\* and gives the ground-standard mode (truck_average of the engine's table,
\* ground_standard of CarrierServiceMapper), and calculate_from_package_info
\* returns an EmissionResult with that mode.
C15_UnknownCarrierGround ==
    /\ (pc = "returned" /\ classified # <<>>
         /\ ~RecognizedCarrier(TheClassification.carrier))
        => /\ TheClassification.raised = ""
           /\ TheClassification.mode \in { "truck_average", "ground_standard" }
    /\ (CalculatedWithAddresses /\ ~RecognizedCarrier(ThePackage.carrier))
        => /\ raised = ""
           /\ HasResult
           /\ TheResult.transport_mode = "truck_average"

IsUPS(carrier) == StrLower(carrier) = S_ups

\* The code differs from a key of the table in letter case only.
CaseVariantOfKey(code, table) ==
    /\ code \notin Keys(table)
    /\ \E key \in Keys(table) : StrUpper(key) = StrUpper(code)

\* The mode the classifier of the last classification gives for a code.
Reclassify(code) ==
    IF TheClassification.classifier = "adapter"
    THEN get_transport_mode(create_adapter(BuiltinAdapters, TheClassification.carrier)[1],
                            code)
    ELSE get_service_type(TheClassification.carrier, code)

\* C16: in both classifiers, for USPS, FedEx and DHL a code is classified as
\* its upper-cased form is; for UPS a code that differs from a key only in
\* letter case is classified as the UPS default.
C16_CaseRules ==
    /\ ((Classified("adapter") \/ Classified("mapper")) /\ ~IsUPS(TheClassification.carrier))
        => TheClassification.mode = Reclassify(StrUpper(TheClassification.service_code))
    /\ (Classified("adapter") /\ IsUPS(TheClassification.carrier)
         /\ CaseVariantOfKey(TheClassification.service_code, UPS_SERVICE_TO_MODE))
        => TheClassification.mode = AdapterDefault(S_ups)
    /\ (Classified("mapper") /\ IsUPS(TheClassification.carrier)
         /\ CaseVariantOfKey(TheClassification.service_code, UPS_SERVICE_MAP))
        => TheClassification.mode = "ground_standard"

\* USPS 'priority' classified by the adapter as the key 'PRIORITY' is, and
\* not as the USPS default.
C16_Witness ==
    /\ Classified("adapter")
    /\ TheClassification.carrier = S_usps
    /\ TheClassification.service_code = <<"p", "r", "i", "o", "r", "i", "t", "y">>
    /\ TheClassification.mode = "air_shorthaul"
    /\ TheClassification.mode # AdapterDefault(S_usps)

\* The service-code tables of the four adapters.
AdapterTables ==
    { UPS_SERVICE_TO_MODE, USPS_SERVICE_TO_MODE, FedEx_SERVICE_TO_MODE, DHL_SERVICE_TO_MODE }

PositiveFactor(mode) == mode \in DOMAIN EMISSION_FACTORS /\ EMISSION_FACTORS[mode] > 0

\* C17: every value of every adapter table (the `default` entries included)
\* and the last-mile mode have a strictly positive entry in the engine's
\* emission factor table, and every ServiceType member one in the
\* configuration module's; so each mode an adapter or the engine classified
\* a package of a recognized carrier as has a positive factor, the factor
\* lookup did not fail, and each service type the mapper returned has one.
C17_FactorsCoverModes ==
    /\ \A table \in AdapterTables : \A mode \in Values(table) : PositiveFactor(mode)
    /\ PositiveFactor("last_mile")
    /\ \A member \in ServiceType :
         \E p \in CONFIG_EMISSION_FACTORS : p[1] = member /\ p[2] > 0
    /\ Classified("adapter") => PositiveFactor(TheClassification.mode)
    /\ Classified("mapper")
        => /\ TheClassification.mode \in ServiceType
           /\ DictGet(CONFIG_EMISSION_FACTORS, TheClassification.mode, 0) > 0
    /\ EngineClassified
        => /\ raised = ""
           /\ HasResult
           /\ TheResult.emission_factor = EMISSION_FACTORS[TheResult.transport_mode]
           /\ TheResult.emission_factor > 0
           /\ \A i \in 1..Len(TheResult.breakdown) :
                 TheResult.breakdown[i].emission_factor > 0

\* UPS code 65 classified by the engine as ocean_container, the only code of
\* the adapters with that mode, at 0.010 kg CO2e per tonne-km.
C17_Witness ==
    /\ EngineClassified
    /\ ThePackage.carrier = S_ups
    /\ ThePackage.service_code = <<"6", "5">>
    /\ HasResult
    /\ TheResult.transport_mode = "ocean_container"
    /\ TheResult.emission_factor = 10

-----------------------------------------------------------------------------
(* Determinism (specification SpecRerun).                                  *)

\* The state holds the outcomes of two runs on the same package.
RanTwice == pc = "returned" /\ first_run # <<>>

TheFirstRun == first_run[1]

RowOutcome(idx) == process_single_package_wrapper(Credentials, idx, RowAt(idx))

\* The row with index idx fails: its processing raises or its dict does not
\* have the status 'success'.
RowFails(idx) ==
    \/ RowOutcome(idx).raised # ""
    \/ RowOutcome(idx).result[1].status # "success"

\* The records of the result list computed from the row with index idx.
RecordsOf(idx) == { k \in 1..Len(results) : results[k]._index = idx }

\* C19: a row that fails (carrier without credentials, no result, an
\* exception, a malformed dimension) never aborts process_csv: the run does
\* not end in an exception, and when it has returned every row has its one
\* record, with the status 'success' exactly when the row did not fail, and
\* every failed row has an entry in the error list.
C19_RowFailureIsolated ==
    /\ batch_pc \notin { "aborting", "raised" }
    /\ batch_pc = "done" =>
         \A idx \in Indexes :
           /\ Cardinality(RecordsOf(idx)) = 1
           /\ \A k \in RecordsOf(idx) :
                (results[k].status = "success") <=> ~RowFails(idx)
           /\ RowFails(idx) =>
                \E e \in 1..Len(errors) :
                  errors[e].tracking_number
                    = RStripUnderscore(StrStrip(RowAt(idx).tracking_number))

\* C20: whatever the order in which the workers complete, when process_csv
\* has collected every future and returned, the result list is in the order
\* of the input rows: the _index of each record is the index of the row it
\* was computed from, and the indexes increase along the list.
C20_OrderedByIndex ==
    batch_pc = "done" =>
      /\ \A k \in 1..Len(results) :
           /\ results[k]._index \in Indexes
           /\ <<results[k]>> = RowOutcome(results[k]._index).result
      /\ \A i, j \in 1..Len(results) :
           i < j => results[i]._index < results[j]._index

\* Two failing rows, the second of which completed first, in a run that has
\* returned.
C20_Witness ==
    /\ batch_pc = "done"
    /\ rows = <<RowRaises, RowNoResult>>
    /\ Len(errors) = 2
    /\ errors[1].tracking_number = <<"1", "Z", "4">>
    /\ errors[2].tracking_number = <<"1", "Z", "5">>
    /\ Len(results) = 2
    /\ results[1]._index = 0 /\ results[1].error_message = "Exception"
    /\ results[2]._index = 1 /\ results[2].error_message = "Calculation failed"

\* The document the carrier answered the call with, once it has been fetched.
TheTrackingData == pipeline.tracking_data[1]

\* The carrier supplied no valid weight: the document has no weight
\* element, or the element has no value, or its value is not a number.
NoValidWeight(data) ==
    \/ data.weight = <<>>
    \/ data.weight[1].value = <<>>
    \/ ~data.weight[1].value[1].is_number

\* C21: a calculate_package_emissions call for a package without a valid
\* weight from the carrier and without dimensions from the caller returns no
\* result, for every carrier: no result is computed from a default weight.
C21_NoDefaultWeight ==
    ( /\ pipeline.pc = "returned"
      /\ pipeline.tracking_data # <<>>
      /\ pipeline.dimensions = <<>>
      /\ NoValidWeight(TheTrackingData) )
    => pipeline.result = <<>>

\* Thread t has its calculator.
HasCalculator(t) == threads.workers[t].calculator # 0

ApplicableQueries(address) ==
    <<to_string(address)>>
      \o (IF address.city # "" /\ address.country # ""
          THEN <<address.city \o ", " \o address.country>> ELSE <<>>)
      \o (IF address.postal_code # "" /\ address.country # ""
          THEN <<address.postal_code \o ", " \o address.country>> ELSE <<>>)

\* The requests of iteration `attempt` among the requests of a call.
QueriesOfAttempt(queries, attempt) ==
    LET InAttempt(request) == request.attempt = attempt
    IN  SelectSeq(queries, InAttempt)

\* C23: on a cache miss the requests of each iteration of the retry loop are
\* a prefix of: full address string, "city, country" (only with both
\* present), "postal_code, country" (only with both present); a request is
\* followed by another of its iteration only if it came back empty; and a
\* request that matched is the last of the call, its coordinates the ones
\* returned.
C23_QueryOrder ==
    (pc = "returned" /\ geocode_call # <<>> /\ geocode_call[1].queries # <<>>)
    => LET call == geocode_call[1]
           queries == call.queries
           applicable == ApplicableQueries(call.address)
       IN  /\ \A i \in 1..(Len(queries) - 1) : queries[i].attempt <= queries[i + 1].attempt
           /\ \A attempt \in 0..(max_retries - 1) :
                LET made == QueriesOfAttempt(queries, attempt)
                IN  /\ Len(made) <= Len(applicable)
                    /\ \A i \in 1..Len(made) : made[i].query = applicable[i]
                    /\ \A i \in 1..(Len(made) - 1) : made[i].kind = "empty"
           /\ \A i \in 1..Len(queries) :
                queries[i].kind = "location"
                  => i = Len(queries) /\ call.coords = queries[i].coords
           /\ call.coords # NoCoords => queries[Len(queries)].kind = "location"

\* A call that matched on "postal_code, country" in its second iteration,
\* after the full string and "city, country" came back empty.
C23_Witness ==
    /\ pc = "returned"
    /\ geocode_call # <<>>
    /\ LET queries == geocode_call[1].queries
           made == QueriesOfAttempt(queries, 1)
       IN  /\ Len(made) = 3
           /\ made[3].query = "01609, US"
           /\ made[3].kind = "location"
           /\ geocode_call[1].coords = made[3].coords
           /\ Len(QueriesOfAttempt(queries, 0)) >= 1


\* C24: a calculate_from_package_info call leaves the adapter registry (the
\* carrier mappings) and the geocoding service as they were, and the
\* PackageInfo its result refers to is the one passed in, field for field;
\* of the calculator only the geocode cache may differ, and it only gains keys.
C24_Frame ==
    [][ (pc = "idle" /\ pc' = "returned")
        => /\ adapters' = adapters
           /\ geocoder' = geocoder
           /\ result' # <<>> => result'[1].package_info = package_info'[1]
           /\ \A key \in DOMAIN cache : key \in DOMAIN cache' /\ cache'[key] = cache[key] ]_vars

\* A call that charged the dimensional weight and geocoded an address: the
\* package of the result still has the weight passed in.
C24_Witness ==
    /\ pc = "returned"
    /\ result # <<>>
    /\ result[1].is_dimensional
    /\ result[1].weight_used_kg # package_info[1].weight_kg * WeightUnitsPerKg
    /\ result[1].package_info = package_info[1]
    /\ cache # EmptyCache


\* The reverse calculation gave exactly the weight w.
ReverseAgrees(weight_kg, w) ==
    weight_kg # <<>> /\ weight_kg[1].num = w * weight_kg[1].den

\* C25: for a result with weight used w > 0 and a last-mile segment, the
\* weight a reporting route computes back from the result's total, distance
\* and factor is not w; where the route makes the division, it is
\* w * (1 + 10 * 0.200 / (distance * factor)), larger than w.  The reverse
\* weight equals w only for results without a last-mile segment.
C25_ReverseDisagrees ==
    (report # <<>> /\ result # <<>> /\ result[1].weight_used_kg > 0)
    => LET w == result[1].weight_used_kg
           weight_kg == report[1].weight_kg
           last_mile == Len(result[1].breakdown) = 2
       IN  /\ last_mile => ~ReverseAgrees(weight_kg, w)
           /\ (last_mile /\ result[1].distance_km > 0)
                => /\ weight_kg # <<>>
                   /\ weight_kg[1].num > w * weight_kg[1].den
                   /\ weight_kg[1].num - w * weight_kg[1].den
                        = w * DEFAULT_DISTANCES.last_mile * EMISSION_FACTORS.last_mile
           /\ ReverseAgrees(weight_kg, w) => ~last_mile

\* A report on a 12 kg (dimensional) UPS Ground result over 667 km with a
\* last-mile segment, where the route made the division.
C25_Witness ==
    /\ report # <<>>
    /\ result # <<>>
    /\ result[1].weight_used_kg = 12 * WeightUnitsPerKg
    /\ result[1].distance_km = 667
    /\ Len(result[1].breakdown) = 2
    /\ report[1].weight_kg # <<>>
    /\ report[1].weight_kg[1].den = 667 * EMISSION_FACTORS.truck_average


\* C26: when a process_csv call has returned, the result list of the
\* processor holds exactly one record per row of that call's input, in the
\* first call and in every later call on the same processor.
C26_OneRecordPerRow ==
    batch_pc = "done" =>
      /\ Len(results) = Len(rows)
      /\ \A idx \in Indexes : Cardinality(RecordsOf(idx)) = 1


\* Every applicable request of the first iteration was made and came back
\* empty.
FirstAttemptAllEmpty(call) ==
    LET made == QueriesOfAttempt(call.queries, 0)
    IN  /\ Len(made) = Len(ApplicableQueries(call.address))
        /\ \A i \in 1..Len(made) : made[i].kind = "empty"

\* The state part of C27.
C27_NegativeNotCached ==
    /\ \A key \in DOMAIN cache : cache[key] \in GeocoderCoords
    /\ (pc = "returned" /\ geocode_call # <<>>) =>
         LET call == geocode_call[1]
         IN  /\ FirstAttemptAllEmpty(call) =>
                  /\ call.coords = NoCoords
                  /\ call.attempts = 1
                  /\ Len(call.queries) = Len(ApplicableQueries(call.address))
             /\ call.coords = NoCoords => to_string(call.address) \notin DOMAIN cache

\* The step part of C27: a call keeps every cache entry as it is, and a call
\* for an address without coordinates whose string is not a cache key asks
\* the geocoder.
C27_CacheStep ==
    (pc = "idle" /\ pc' = "returned" /\ geocode_call' # <<>>) =>
      LET call == geocode_call'[1]
      IN  /\ \A key \in DOMAIN cache : key \in DOMAIN cache' /\ cache'[key] = cache[key]
          /\ ( /\ ~(Truthy(call.address.latitude) /\ Truthy(call.address.longitude))
               /\ to_string(call.address) \notin DOMAIN cache )
             => call.queries # <<>>

\* C27: negative geocoding outcomes are neither retried nor cached.  When
\* every applicable request of the first iteration comes back empty the call
\* returns (None, None) after that one iteration; every cache entry is a
\* coordinate pair the geocoder returned; no call removes or replaces an
\* entry; an address that did not resolve is not a cache key, and a call for
\* it asks the geocoder again.
C27_NegativeOutcomes == []C27_NegativeNotCached /\ [][C27_CacheStep]_vars

\* A call that found nothing for an address with both fallbacks, on a cache
\* that holds another address.
C27_Witness ==
    /\ pc = "returned"
    /\ geocode_call # <<>>
    /\ geocode_call[1].address = AddrCampusText
    /\ FirstAttemptAllEmpty(geocode_call[1])
    /\ geocode_call[1].coords = NoCoords
    /\ Len(geocode_call[1].queries) = 3
    /\ DOMAIN cache = { to_string(AddrWorcester) }


\* C28: with a geocoding service that answers each query the same way every
\* time and without errors, every geocode_address call on a DistanceCalculator
\* returns the coordinates the same call returns on a calculator whose cache
\* is empty.
C28_CacheTransparent ==
    (pc = "returned" /\ geocode_call # <<>>)
    => geocode_call[1].coords
         \in { out.coords : out \in geocode_address(geocode_call[1].address, EmptyCache) }


\* The stages of a calculate_package_emissions call with the argument
\* `dimensions`, in order; dimensions are attached only when supplied.
ExpectedStages(dimensions) ==
    <<"create_adapter", "authenticate", "get_tracking_data", "parse_tracking_data">>
      \o (IF dimensions # <<>> THEN <<"add_dimensions">> ELSE <<>>)
      \o <<"calculate">>

Started(stage) == \E i \in 1..Len(stage_log) : stage_log[i] = stage

\* The stage has run and the call has gone on or returned.
Ran(stage) == Started(stage) /\ pipeline.pc # stage

\* The call returned None out of `stage`, the last stage it started.
ReturnedNoneAfter(stage) ==
    /\ pipeline.pc = "returned"
    /\ pipeline.result = <<>>
    /\ stage_log[Len(stage_log)] = stage

\* C29: the stages a calculate_package_emissions call has started are a
\* prefix of: adapter creation, authentication, tracking fetch, parsing,
\* dimension attachment (only with dimensions supplied), calculation.  A
\* stage is started only with the products of the stages before it (adapter,
\* token, tracking data, parsed package); a stage that fails is the last one
\* started and the call returns None; supplied dimensions are on the parsed
\* package when the calculation starts.
C29_StageOrder ==
    LET expected == ExpectedStages(pipeline.dimensions)
    IN  /\ Len(stage_log) <= Len(expected)
        /\ \A i \in 1..Len(stage_log) : stage_log[i] = expected[i]
        /\ Started("authenticate") => pipeline.adapter # <<>>
        /\ Started("get_tracking_data") => pipeline.token # <<>>
        /\ Started("parse_tracking_data") => pipeline.tracking_data # <<>>
        /\ Started("add_dimensions") => pipeline.package # <<>>
        /\ Started("calculate") =>
             /\ pipeline.package # <<>>
             /\ pipeline.dimensions # <<>>
                  => pipeline.package[1].dimensions = pipeline.dimensions
        /\ (Ran("create_adapter") /\ pipeline.adapter = <<>>)
             => ReturnedNoneAfter("create_adapter")
        /\ (Ran("authenticate") /\ pipeline.token = <<>>)
             => ReturnedNoneAfter("authenticate")
        /\ (Ran("get_tracking_data") /\ pipeline.tracking_data = <<>>)
             => ReturnedNoneAfter("get_tracking_data")
        /\ (Ran("parse_tracking_data") /\ pipeline.package = <<>>)
             => ReturnedNoneAfter("parse_tracking_data")
        /\ (pipeline.pc = "returned" /\ pipeline.result # <<>>)
             => stage_log = expected

\* A call with dimensions that ran every stage and returned a result.
C29_Witness ==
    /\ pipeline.pc = "returned"
    /\ pipeline.dimensions = <<50, 40, 30>>
    /\ pipeline.result # <<>>
    /\ Len(stage_log) = 6
    /\ stage_log[5] = "add_dimensions"
    /\ pipeline.package[1].dimensions = <<50, 40, 30>>


\* C30: no entry of the service-code tables of the UPS, USPS, FedEx and DHL
\* adapters, the `default` entries included, has the mode last_mile; so the
\* adapter of one of these carriers never classifies a code as last_mile, and
\* every result of the engine for one of them has two segments, the second
\* the last-mile one, and with a positive weight a total above the emissions
\* of its main-transit segment.
C30_NoBuiltinLastMile ==
    /\ \A table \in AdapterTables : "last_mile" \notin Values(table)
    /\ Classified("adapter") => TheClassification.mode # "last_mile"
    /\ (EngineClassified /\ HasResult)
        => /\ TheResult.transport_mode # "last_mile"
           /\ Len(TheResult.breakdown) = 2
           /\ TheResult.breakdown[2].mode = "last_mile"
           /\ TheResult.weight_used_kg > 0
                => TheResult.total_emissions_kg > TheResult.breakdown[1].emissions_kg

\* A DHL ground package of positive weight: two segments, the total above
\* the main-transit emissions.
C30_Witness ==
    /\ EngineClassified
    /\ HasResult
    /\ StrLower(ThePackage.carrier) = S_dhl
    /\ ThePackage.service_code = <<"G", "R", "O", "U", "N", "D">>
    /\ TheResult.transport_mode = "truck_average"
    /\ TheResult.weight_used_kg > 0
    /\ Len(TheResult.breakdown) = 2
    /\ TheResult.total_emissions_kg > TheResult.breakdown[1].emissions_kg

=============================================================================
